---- MODULE Spec2Model ----
(***************************************************************************)
(* Community-Circle-Alert: the Alert / CheckIn / Circle lifecycle engines  *)
(* of the server (Mongoose models + Express controllers).                  *)
(*                                                                         *)
(* One circle, one alert and one check-in document are modelled; every     *)
(* controller is an action, every model method an operator on a document.  *)
(* Time is counted in minutes.  An alert or check-in that was never        *)
(* created has status "none", a circle exists = FALSE (findById: null).    *)
(*                                                                         *)
(* Persistence follows Mongoose's save(): only the paths a request         *)
(* modified are written ($set), array pushes are sent as $push, and a      *)
(* positional $set into a document array carries the loaded version in     *)
(* its filter.  Handlers are modelled twice: as one atomic step (a         *)
(* request that runs alone), and split at their awaits (load / save) for   *)
(* the specifications that interleave requests.                            *)
(***************************************************************************)
EXTENDS Integers, Sequences, FiniteSets, TLC

VARIABLES
  now,          \* Date.now(), in minutes
  circle,       \* the stored Circle document
  userCircles,  \* User.circles: the users whose circles list holds the circle
  alert,        \* the stored Alert document
  checkIn,      \* the stored CheckIn document
  res,          \* the response of the last answered request
  reqs,         \* the requests in flight (interleaving specifications only)
  io,           \* the Socket.io server: its sockets, their rooms, the events emitted
  users,        \* the stored User documents: login counters, refresh token, privacy
  second,       \* Math.floor(Date.now() / 1000), the second jsonwebtoken stamps a token with
  tokenLog,     \* history variable: the refresh tokens issued, and those logged out
  inserted,     \* the number of documents Alert.create and CheckIn.create have inserted
  client        \* the browser of u1: its localStorage and the request its api instance sends

vars == <<now, circle, userCircles, alert, checkIn, res, reqs, io, users, second, tokenLog, inserted, client>>

(***************************************************************************)
(* Bounds and input sets                                                   *)
(***************************************************************************)
Users == {"u1", "u2", "u3"}
NoUser == "null"
NoTime == -1

\* Longest activity log an alert is driven to.
MaxLog == 4
\* Requests that may be in flight together in the interleaving specifications.
MaxInFlight == 2

Responses == {"monitoring", "on-my-way"}
NoteTexts == {"", "note"}
ResolutionStatuses == {"safe", "help-arrived"}
Messages == {"", "msg"}

\* findNeedingEscalation: 5 * 60 * 1000 ms
EscalationWindow == 5
\* priority set by createAlert and by escalate
MaxPriority == 5

(***************************************************************************)
(* Responses                                                               *)
(***************************************************************************)
\* res.status(code).json({success: true, ...}); the success message is not kept
Ok(code, msg) == [code |-> code, error |-> ""]
\* next(new ErrorResponse(msg, code))
ErrorResponse(msg, code) == [code |-> code, error |-> msg]
NoResponse == [code |-> 0, error |-> ""]

(***************************************************************************)
(* Documents: method outcomes and save()                                   *)
(***************************************************************************)
\* A method's outcome: the mutated document, or the error it throws
Done(d) == [err |-> "", doc |-> d]
Throw(msg, d) == [err |-> msg, doc |-> d]

\* save() writes a path when the request changed it since the load ...
Changed(loaded, mutated, stored) == IF mutated # loaded THEN mutated ELSE stored

\* ... and $push-es the elements the request appended to an array
Pushed(loaded, mutated) == SubSeq(mutated, Len(loaded) + 1, Len(mutated))

(***************************************************************************)
(* Requests in flight: one slot per user, one for the escalation sweep     *)
(***************************************************************************)
Slots == Users \cup {"sweep"}
NoReq == [op |-> "none"]
NoRequests == [s \in Slots |-> NoReq]
InFlight == Cardinality({s \in Slots : reqs[s] # NoReq})

\* placeholder of the check-in that was never created
NoCheckIn ==
  [ status |-> "none", user |-> NoUser, expectedReturnTime |-> NoTime,
    acknowledgments |-> <<>>, completedAt |-> NoTime, completionNotes |-> "",
    completionStatus |-> "null", coordinates |-> <<>>, locationHistory |-> <<>>,
    isDeleted |-> FALSE ]

(***************************************************************************)
(* User documents.  A refresh token is the JWT of {id}, stamped with the   *)
(* second it is signed in (iat): jwt.sign yields the same string for the   *)
(* same user in the same second.                                           *)
(***************************************************************************)
Passwords == {"secret", "guess"}

NoToken == [id |-> NoUser, iat |-> -1]

\* jwt.sign({id}, JWT_REFRESH_SECRET, {expiresIn})
RefreshToken(u, iat) == [id |-> u, iat |-> iat]

\* User.create in register, followed by generateRefreshToken and save, in second 0
NewUser(u) ==
  [ password |-> "secret", failedLoginAttempts |-> 0, lockUntil |-> NoTime,
    refreshToken |-> RefreshToken(u, 0),
    privacySettings |-> [shareLocationWithCircles |-> TRUE] ]

RegisteredUsers == [u \in Users |-> NewUser(u)]

NoInserted == [alerts |-> 0, checkIns |-> 0]

\* a browser with an empty localStorage that has sent nothing
NoStorage == [accessToken |-> "none", refreshToken |-> NoToken, user |-> NoUser]

NoApiRequest ==
  [stage |-> "idle", retry |-> FALSE, Authorization |-> "none", code |-> "",
   sends |-> 0, refreshes |-> 0]

NoClient == [localStorage |-> NoStorage, originalRequest |-> NoApiRequest]

\* the tokens register issued; none was logged out
NoTokenLog == [issued |-> {RefreshToken(u, 0) : u \in Users}, revoked |-> {}]

(***************************************************************************)
(* Socket.io server: the sockets of the clients, the rooms each has        *)
(* joined, the events emitted and the events each client has received      *)
(***************************************************************************)
Sockets == {"s1", "s2"}
\* the circle of the model and a circle none of the users belongs to
CircleIds == {"c1", "c2"}
\* Events followed.
MaxEvents == 1

NoCredential == [kind |-> "none", id |-> NoUser]

NoSocket ==
  [ state |-> "idle", auth |-> NoCredential, error |-> "", userId |-> NoUser,
    circles |-> {}, rooms |-> {}, inbox |-> <<>>, issued |-> 0 ]

NoIo ==
  [ sockets |-> [s \in Sockets |-> NoSocket], published |-> <<>>,
    isActive |-> [u \in Users |-> TRUE] ]

(***************************************************************************)
(* Circle: membership predicates                                           *)
(***************************************************************************)
Indices(s) == 1..Len(s)

\* Array.prototype.find / findIndex: the first index that holds user, 0 if none
FirstIndex(s, u) ==
  IF \E i \in Indices(s) : s[i].user = u
  THEN CHOOSE i \in Indices(s) :
         /\ s[i].user = u
         /\ \A j \in Indices(s) : s[j].user = u => i <= j
  ELSE 0

circle_isMember(c, u) ==
  \E i \in Indices(c.members) : c.members[i].user = u /\ c.members[i].isActive

circle_isAdmin(c, u) ==
  \E i \in Indices(c.members) :
     /\ c.members[i].user = u
     /\ c.members[i].role = "admin"
     /\ c.members[i].isActive

(***************************************************************************)
(* Circle document and methods                                             *)
(***************************************************************************)
\* settings.maxMembers: min / max of the schema
MinMaxMembers == 2
MaxMaxMembers == 100
\* Largest settings.maxMembers a request asks for.
MaxSetting == 3
\* generateInviteCode: 30 days, in minutes
InviteCodeMinutes == 43200

InviteCodes == {"C0DE", "N0NE"}

NoCircle ==
  [ exists |-> FALSE, createdBy |-> NoUser, members |-> <<>>,
    inviteCode |-> "", inviteCodeExpiry |-> NoTime,
    settings |-> [maxMembers |-> 0, allowMemberInvites |-> TRUE],
    isActive |-> FALSE,
    stats |-> [totalAlerts |-> 0, totalCheckIns |-> 0, lastActivityAt |-> NoTime],
    v |-> 0 ]

Member(u, role) == [user |-> u, role |-> role, joinedAt |-> now, isActive |-> TRUE]

\* Circle.create in createCircle followed by generateInviteCode and save
NewCircle(u, maxMembers) ==
  [ exists |-> TRUE, createdBy |-> u, members |-> << Member(u, "admin") >>,
    inviteCode |-> "C0DE", inviteCodeExpiry |-> now + InviteCodeMinutes,
    settings |-> [maxMembers |-> maxMembers, allowMemberInvites |-> TRUE],
    isActive |-> TRUE,
    stats |-> [totalAlerts |-> 0, totalCheckIns |-> 0, lastActivityAt |-> now],
    v |-> 0 ]

\* the virtual memberCount
memberCount(c) == Cardinality({i \in Indices(c.members) : c.members[i].isActive})

adminCount(c) ==
  Cardinality({i \in Indices(c.members) :
                 c.members[i].role = "admin" /\ c.members[i].isActive})

isInviteCodeValid(c) ==
  IF c.inviteCode = "" \/ c.inviteCodeExpiry = NoTime
  THEN FALSE
  ELSE c.inviteCodeExpiry > now

\* addMember that does not look for an entry of the user
circle_addMember_again(c, u, role) ==
  LET i == FirstIndex(c.members, u)
  IN IF i > 0 /\ c.members[i].isActive
     THEN Done(c)
     ELSE IF memberCount(c) >= c.settings.maxMembers
     THEN Throw("Circle has reached maximum member limit", c)
     ELSE Done([c EXCEPT !.members = Append(@, Member(u, role)),
                         !.stats.lastActivityAt = now])

circle_addMember(c, u, role) ==
  LET i == FirstIndex(c.members, u)
  IN IF i > 0
     THEN IF ~c.members[i].isActive
          THEN Done([c EXCEPT !.members[i].isActive = TRUE, !.members[i].joinedAt = now])
          ELSE Done(c)
     ELSE IF memberCount(c) >= c.settings.maxMembers
     THEN Throw("Circle has reached maximum member limit", c)
     ELSE Done([c EXCEPT !.members = Append(@, Member(u, role)),
                         !.stats.lastActivityAt = now])

\* removeMember without its last-admin check
circle_removeMember_unguarded(c, u) ==
  LET i == FirstIndex(c.members, u)
  IN IF i = 0
     THEN Throw("User is not a member of this circle", c)
     ELSE Done([c EXCEPT !.members[i].isActive = FALSE, !.stats.lastActivityAt = now])

\* removeMember that leaves the entry active
circle_removeMember_keepActive(c, u) ==
  LET i == FirstIndex(c.members, u)
  IN IF i = 0
     THEN Throw("User is not a member of this circle", c)
     ELSE IF c.members[i].role = "admin" /\ adminCount(c) <= 1
     THEN Throw("Cannot remove the last admin from the circle", c)
     ELSE Done([c EXCEPT !.stats.lastActivityAt = now])

circle_removeMember(c, u) ==
  LET i == FirstIndex(c.members, u)
  IN IF i = 0
     THEN Throw("User is not a member of this circle", c)
     ELSE IF c.members[i].role = "admin" /\ adminCount(c) <= 1
     THEN Throw("Cannot remove the last admin from the circle", c)
     ELSE Done([c EXCEPT !.members[i].isActive = FALSE, !.stats.lastActivityAt = now])

\* the first entry of user u that is active
FirstActiveIndex(s, u) ==
  IF \E i \in Indices(s) : s[i].user = u /\ s[i].isActive
  THEN CHOOSE i \in Indices(s) :
         /\ s[i].user = u /\ s[i].isActive
         /\ \A j \in Indices(s) : (s[j].user = u /\ s[j].isActive) => i <= j
  ELSE 0

circle_updateMemberRole(c, u, newRole) ==
  LET i == FirstActiveIndex(c.members, u)
  IN IF i = 0
     THEN Throw("User is not an active member of this circle", c)
     ELSE IF c.members[i].role = "admin" /\ newRole # "admin" /\ adminCount(c) <= 1
     THEN Throw("Cannot demote the last admin", c)
     ELSE Done([c EXCEPT !.members[i].role = newRole, !.stats.lastActivityAt = now])

circle_incrementAlerts(c) ==
  Done([c EXCEPT !.stats.totalAlerts = @ + 1, !.stats.lastActivityAt = now])

circle_incrementCheckIns(c) ==
  Done([c EXCEPT !.stats.totalCheckIns = @ + 1, !.stats.lastActivityAt = now])

\* the schema validators that run on save
circle_validate(c) ==
  c.settings.maxMembers >= MinMaxMembers /\ c.settings.maxMembers <= MaxMaxMembers

\* document.save() of a loaded circle sends the update of the paths the
\* request changed: a changed field of an element of members is a positional
\* $set (members.i.field), whose filter carries the loaded version; a pushed
\* member is a $push, which increments the version; a changed scalar is a $set.
MemberFields == {"role", "joinedAt", "isActive"}

CircleScalars(c) ==
  { <<"inviteCode", c.inviteCode>>, <<"inviteCodeExpiry", c.inviteCodeExpiry>>,
    <<"settings.maxMembers", c.settings.maxMembers>>, <<"isActive", c.isActive>>,
    <<"stats.totalAlerts", c.stats.totalAlerts>>,
    <<"stats.totalCheckIns", c.stats.totalCheckIns>>,
    <<"stats.lastActivityAt", c.stats.lastActivityAt>> }

circle_delta(loaded, mutated) ==
  [ invalid |-> ~circle_validate(mutated),
    sets |-> { t \in { <<i, f, mutated.members[i][f]>> :
                         i \in Indices(loaded.members), f \in MemberFields } :
               loaded.members[t[1]][t[2]] # t[3] },
    push |-> Pushed(loaded.members, mutated.members),
    scalars |-> CircleScalars(mutated) \ CircleScalars(loaded),
    v |-> loaded.v ]

\* the value an update writes to a path, or the stored one
Written(updates, path, old) ==
  IF \E t \in updates : t[1] = path
  THEN (CHOOSE t \in updates : t[1] = path)[2]
  ELSE old

WrittenAt(sets, i, f, old) ==
  IF \E t \in sets : t[1] = i /\ t[2] = f
  THEN (CHOOSE t \in sets : t[1] = i /\ t[2] = f)[3]
  ELSE old

circle_apply(stored, d) ==
  IF d.invalid
  THEN Throw("Validation failed", stored)
  ELSE IF d.sets # {} /\ stored.v # d.v
  THEN Throw("No matching document found for id", stored)
  ELSE Done(
    [ exists |-> stored.exists,
      createdBy |-> stored.createdBy,
      members |->
        [i \in Indices(stored.members) |->
           [ user |-> stored.members[i].user,
             role |-> WrittenAt(d.sets, i, "role", stored.members[i].role),
             joinedAt |-> WrittenAt(d.sets, i, "joinedAt", stored.members[i].joinedAt),
             isActive |-> WrittenAt(d.sets, i, "isActive", stored.members[i].isActive) ]]
        \o d.push,
      inviteCode |-> Written(d.scalars, "inviteCode", stored.inviteCode),
      inviteCodeExpiry |-> Written(d.scalars, "inviteCodeExpiry", stored.inviteCodeExpiry),
      settings |->
        [ maxMembers |-> Written(d.scalars, "settings.maxMembers", stored.settings.maxMembers),
          allowMemberInvites |-> stored.settings.allowMemberInvites ],
      isActive |-> Written(d.scalars, "isActive", stored.isActive),
      stats |->
        [ totalAlerts |-> Written(d.scalars, "stats.totalAlerts", stored.stats.totalAlerts),
          totalCheckIns |->
            Written(d.scalars, "stats.totalCheckIns", stored.stats.totalCheckIns),
          lastActivityAt |->
            Written(d.scalars, "stats.lastActivityAt", stored.stats.lastActivityAt) ],
      v |-> IF d.push # <<>> THEN stored.v + 1 ELSE stored.v ])

circle_save(stored, loaded, mutated) == circle_apply(stored, circle_delta(loaded, mutated))

(***************************************************************************)
(* Alert document and methods                                              *)
(***************************************************************************)
NoAlert ==
  [ status |-> "none", triggeredBy |-> NoUser, acknowledgedBy |-> <<>>,
    resolvedAt |-> NoTime, resolvedBy |-> NoUser, resolutionStatus |-> "null",
    activityLog |-> <<>>, priority |-> 0,
    autoEscalate |-> [enabled |-> FALSE, escalateAfterMinutes |-> 0,
                      escalated |-> FALSE, escalatedAt |-> NoTime],
    createdAt |-> NoTime, isDeleted |-> FALSE ]

\* Alert.create in createAlert, the schema defaults, and the pre('save') hook
\* that seeds the activity log of a new document
NewAlert(u, t) ==
  [ status |-> "active", triggeredBy |-> u, acknowledgedBy |-> <<>>,
    resolvedAt |-> NoTime, resolvedBy |-> NoUser, resolutionStatus |-> "null",
    activityLog |-> << [action |-> "created", performedBy |-> u, timestamp |-> t] >>,
    priority |-> MaxPriority,
    autoEscalate |-> [enabled |-> TRUE, escalateAfterMinutes |-> EscalationWindow,
                      escalated |-> FALSE, escalatedAt |-> NoTime],
    createdAt |-> t, isDeleted |-> FALSE ]

LogEntry(action, u) == [action |-> action, performedBy |-> u, timestamp |-> now]

\* acknowledge that sets the status whatever it was
alert_acknowledge_always(d, u, response, notes) ==
  LET i == FirstIndex(d.acknowledgedBy, u)
      ack == [user |-> u, acknowledgedAt |-> now, response |-> response, notes |-> notes]
  IN Done([d EXCEPT
        !.acknowledgedBy = IF i > 0 THEN [@ EXCEPT ![i] = ack] ELSE Append(@, ack),
        !.status = "acknowledged",
        !.activityLog = Append(@, LogEntry("acknowledged", u))])

\* acknowledge that pushes a record without looking for an existing one
alert_acknowledge_push(d, u, response, notes) ==
  LET ack == [user |-> u, acknowledgedAt |-> now, response |-> response, notes |-> notes]
  IN Done([d EXCEPT
        !.acknowledgedBy = Append(@, ack),
        !.status = IF @ = "active" THEN "acknowledged" ELSE @,
        !.activityLog = Append(@, LogEntry("acknowledged", u))])

alert_acknowledge(d, u, response, notes) ==
  LET i == FirstIndex(d.acknowledgedBy, u)
      ack == [user |-> u, acknowledgedAt |-> now, response |-> response, notes |-> notes]
  IN Done([d EXCEPT
        !.acknowledgedBy = IF i > 0 THEN [@ EXCEPT ![i] = ack] ELSE Append(@, ack),
        !.status = IF @ = "active" THEN "acknowledged" ELSE @,
        !.activityLog = Append(@, LogEntry("acknowledged", u))])

alert_resolve(d, u, resolutionStatus) ==
  IF d.status = "resolved"
  THEN Throw("Alert is already resolved", d)
  ELSE Done([d EXCEPT
         !.status = "resolved",
         !.resolvedAt = now,
         !.resolvedBy = u,
         !.resolutionStatus = resolutionStatus,
         !.activityLog = Append(@, LogEntry("resolved", u))])

alert_cancel(d, u) ==
  IF d.status = "resolved"
  THEN Throw("Cannot cancel a resolved alert", d)
  ELSE Done([d EXCEPT
         !.status = "cancelled",
         !.resolvedAt = now,
         !.resolvedBy = u,
         !.activityLog = Append(@, LogEntry("cancelled", u))])

alert_markFalseAlarm(d, u) ==
  Done([d EXCEPT
    !.status = "false-alarm",
    !.resolvedAt = now,
    !.resolvedBy = u,
    !.resolutionStatus = "false-alarm",
    !.activityLog = Append(@, LogEntry("resolved", u))])

alert_escalate(d) ==
  IF d.autoEscalate.escalated
  THEN Done(d)
  ELSE Done([d EXCEPT
         !.autoEscalate.escalated = TRUE,
         !.autoEscalate.escalatedAt = now,
         !.priority = MaxPriority,
         !.activityLog = Append(@, LogEntry("escalated", NoUser))])

\* Alert.findNeedingEscalation's filter
findNeedingEscalation(d) ==
  /\ d.status = "active"
  /\ d.autoEscalate.enabled
  /\ ~d.autoEscalate.escalated
  /\ d.createdAt < now - EscalationWindow
  /\ ~d.isDeleted

\* document.save() of a loaded alert: the paths that differ from the loaded
\* document are $set, the array elements added since the load are $push-ed
alert_save(stored, loaded, mutated) ==
  [ status |-> Changed(loaded.status, mutated.status, stored.status),
    triggeredBy |-> stored.triggeredBy,
    acknowledgedBy |->
      [i \in Indices(stored.acknowledgedBy) |->
         IF i <= Len(loaded.acknowledgedBy)
         THEN LET l == loaded.acknowledgedBy[i]
                  m == mutated.acknowledgedBy[i]
                  st == stored.acknowledgedBy[i]
              IN [ user |-> st.user,
                   acknowledgedAt |-> Changed(l.acknowledgedAt, m.acknowledgedAt,
                                              st.acknowledgedAt),
                   response |-> Changed(l.response, m.response, st.response),
                   notes |-> Changed(l.notes, m.notes, st.notes) ]
         ELSE stored.acknowledgedBy[i]]
      \o Pushed(loaded.acknowledgedBy, mutated.acknowledgedBy),
    resolvedAt |-> Changed(loaded.resolvedAt, mutated.resolvedAt, stored.resolvedAt),
    resolvedBy |-> Changed(loaded.resolvedBy, mutated.resolvedBy, stored.resolvedBy),
    resolutionStatus |->
      Changed(loaded.resolutionStatus, mutated.resolutionStatus, stored.resolutionStatus),
    activityLog |-> stored.activityLog \o Pushed(loaded.activityLog, mutated.activityLog),
    priority |-> Changed(loaded.priority, mutated.priority, stored.priority),
    autoEscalate |->
      [ enabled |-> stored.autoEscalate.enabled,
        escalateAfterMinutes |-> stored.autoEscalate.escalateAfterMinutes,
        escalated |-> Changed(loaded.autoEscalate.escalated, mutated.autoEscalate.escalated,
                              stored.autoEscalate.escalated),
        escalatedAt |-> Changed(loaded.autoEscalate.escalatedAt,
                                mutated.autoEscalate.escalatedAt,
                                stored.autoEscalate.escalatedAt) ],
    createdAt |-> stored.createdAt,
    isDeleted |-> Changed(loaded.isDeleted, mutated.isDeleted, stored.isDeleted) ]

(***************************************************************************)
(* Circle controllers.  <handler>On(c, ...) is the handler run on the      *)
(* loaded circle c up to its save: either it answers at once (fail), or it *)
(* leaves a mutated document to save, the status an error of the save or   *)
(* of the method is answered with, and the update of User.circles that     *)
(* follows the save.                                                       *)
(***************************************************************************)
Roles == {"admin", "member"}

Reject(r, c) ==
  [fail |-> TRUE, res |-> r, doc |-> c, userOp |-> "none", target |-> NoUser]

Proceed(r, d, userOp, target) ==
  [fail |-> FALSE, res |-> r, doc |-> d, userOp |-> userOp, target |-> target]

\* a model method called inside the handler's inner try / catch
Try(m, r, userOp, target) ==
  IF m.err # ""
  THEN Reject(ErrorResponse(m.err, 400), m.doc)
  ELSE Proceed(r, m.doc, userOp, target)

\* a model method whose error reaches the handler's outer catch: next(error)
TryOuter(m, r, userOp, target) ==
  IF m.err # ""
  THEN Reject(ErrorResponse(m.err, 500), m.doc)
  ELSE Proceed(r, m.doc, userOp, target)

updateCircleOn(c, u, maxMembers) ==
  IF ~c.exists
  THEN Reject(ErrorResponse("Circle not found", 404), c)
  ELSE IF ~circle_isAdmin(c, u)
  THEN Reject(ErrorResponse("Only circle admins can update circle settings", 403), c)
  ELSE Proceed(Ok(200, "Circle updated successfully"),
               [c EXCEPT !.settings.maxMembers = maxMembers, !.stats.lastActivityAt = now],
               "none", NoUser)

deleteCircleOn(c, u) ==
  IF ~c.exists
  THEN Reject(ErrorResponse("Circle not found", 404), c)
  ELSE IF ~circle_isAdmin(c, u)
  THEN Reject(ErrorResponse("Only circle admins can delete circles", 403), c)
  ELSE Proceed(Ok(200, "Circle deleted successfully"),
               [c EXCEPT !.isActive = FALSE], "pullAll", NoUser)

\* invite of the email of an existing user
inviteToCircleOn(c, u, invited) ==
  IF ~c.exists
  THEN Reject(ErrorResponse("Circle not found", 404), c)
  ELSE IF ~circle_isMember(c, u)
  THEN Reject(ErrorResponse("You are not a member of this circle", 403), c)
  ELSE IF ~c.settings.allowMemberInvites /\ ~circle_isAdmin(c, u)
  THEN Reject(ErrorResponse("Only admins can invite members to this circle", 403), c)
  ELSE IF circle_isMember(c, invited)
  THEN Reject(ErrorResponse("User is already a member of this circle", 400), c)
  ELSE TryOuter(circle_addMember(c, invited, "member"),
                Ok(200, "User added to circle successfully"), "add", invited)

\* join that looks for the membership before it looks at the expiry
joinCircleByCodeOn_memberFirst(c, u, code) ==
  IF ~c.exists \/ c.inviteCode # code
  THEN Reject(ErrorResponse("Invalid invite code", 404), c)
  ELSE IF circle_isMember(c, u)
  THEN Reject(ErrorResponse("You are already a member of this circle", 400), c)
  ELSE IF ~isInviteCodeValid(c)
  THEN Reject(ErrorResponse("Invite code has expired", 400), c)
  ELSE Try(circle_addMember(c, u, "member"),
           Ok(200, "Successfully joined circle"), "add", u)

\* c is the circle Circle.findOne({inviteCode}) answers
joinCircleByCodeOn(c, u, code) ==
  IF ~c.exists \/ c.inviteCode # code
  THEN Reject(ErrorResponse("Invalid invite code", 404), c)
  ELSE IF ~isInviteCodeValid(c)
  THEN Reject(ErrorResponse("Invite code has expired", 400), c)
  ELSE IF circle_isMember(c, u)
  THEN Reject(ErrorResponse("You are already a member of this circle", 400), c)
  ELSE Try(circle_addMember(c, u, "member"),
           Ok(200, "Successfully joined circle"), "add", u)

leaveCircleOn(c, u) ==
  IF ~c.exists
  THEN Reject(ErrorResponse("Circle not found", 404), c)
  ELSE IF ~circle_isMember(c, u)
  THEN Reject(ErrorResponse("You are not a member of this circle", 400), c)
  ELSE Try(circle_removeMember(c, u), Ok(200, "Successfully left circle"), "pull", u)

removeMemberOn(c, u, userId) ==
  IF ~c.exists
  THEN Reject(ErrorResponse("Circle not found", 404), c)
  ELSE IF ~circle_isAdmin(c, u)
  THEN Reject(ErrorResponse("Only circle admins can remove members", 403), c)
  ELSE IF userId = u
  THEN Reject(ErrorResponse("Use leave endpoint to remove yourself from circle", 400), c)
  ELSE Try(circle_removeMember(c, userId), Ok(200, "Member removed successfully"),
           "pull", userId)

updateMemberRoleOn(c, u, userId, role) ==
  IF ~c.exists
  THEN Reject(ErrorResponse("Circle not found", 404), c)
  ELSE IF ~circle_isAdmin(c, u)
  THEN Reject(ErrorResponse("Only circle admins can update member roles", 403), c)
  ELSE Try(circle_updateMemberRole(c, userId, role),
           Ok(200, "Member role updated successfully"), "none", NoUser)

\* User.findByIdAndUpdate $addToSet / $pull, User.updateMany $pull
UserUpdate(circles, userOp, target) ==
  CASE userOp = "add" -> circles \cup {target}
    [] userOp = "pull" -> circles \ {target}
    [] userOp = "pullAll" -> {}
    [] OTHER -> circles

\* the status a failed save is answered with: the handlers that save inside
\* their inner try answer 400, the others pass the error to next()
SaveErrorCode(op) ==
  IF op \in {"join", "leave", "remove", "role"} THEN 400 ELSE 500

(***************************************************************************)
(* Circle requests that run alone: load, mutate, save, update the user     *)
(***************************************************************************)
CircleRequest(op, out) ==
  /\ IF out.fail
     THEN /\ res' = out.res
          /\ UNCHANGED <<circle, userCircles>>
     ELSE LET sv == circle_save(circle, circle, out.doc)
          IN IF sv.err # ""
             THEN /\ res' = ErrorResponse(sv.err, SaveErrorCode(op))
                  /\ UNCHANGED <<circle, userCircles>>
             ELSE /\ circle' = sv.doc
                  /\ userCircles' = UserUpdate(userCircles, out.userOp, out.target)
                  /\ res' = out.res
  /\ UNCHANGED <<now, alert, checkIn, reqs, io, users, second, tokenLog, inserted, client>>

createCircle(u, maxMembers) ==
  /\ ~circle.exists
  /\ IF ~circle_validate(NewCircle(u, maxMembers))
     THEN /\ res' = ErrorResponse("Validation failed", 500)
          /\ UNCHANGED <<circle, userCircles>>
     ELSE /\ circle' = NewCircle(u, maxMembers)
          /\ userCircles' = UserUpdate(userCircles, "add", u)
          /\ res' = Ok(201, "Circle created successfully")
  /\ UNCHANGED <<now, alert, checkIn, reqs, io, users, second, tokenLog, inserted, client>>

updateCircle(u, maxMembers) == CircleRequest("update", updateCircleOn(circle, u, maxMembers))

deleteCircle(u) == CircleRequest("delete", deleteCircleOn(circle, u))

inviteToCircle(u, invited) == CircleRequest("invite", inviteToCircleOn(circle, u, invited))

joinCircleByCode(u, code) == CircleRequest("join", joinCircleByCodeOn(circle, u, code))

leaveCircle(u) == CircleRequest("leave", leaveCircleOn(circle, u))

removeMember(u, userId) == CircleRequest("remove", removeMemberOn(circle, u, userId))

updateMemberRole(u, userId, role) ==
  CircleRequest("role", updateMemberRoleOn(circle, u, userId, role))

InitCircle ==
  /\ now = 0
  /\ circle = NoCircle
  /\ userCircles = {}
  /\ alert = NoAlert
  /\ checkIn = NoCheckIn
  /\ res = NoResponse
  /\ reqs = NoRequests
  /\ io = NoIo
  /\ users = RegisteredUsers
  /\ second = 0
  /\ tokenLog = NoTokenLog
  /\ inserted = NoInserted
  /\ client = NoClient

NextCircle ==
  \/ \E u \in Users, m \in 1..MaxSetting : createCircle(u, m)
  \/ \E u \in Users, m \in 1..MaxSetting : updateCircle(u, m)
  \/ \E u \in Users : deleteCircle(u)
  \/ \E u, w \in Users : inviteToCircle(u, w)
  \/ \E u \in Users, code \in InviteCodes : joinCircleByCode(u, code)
  \/ \E u \in Users : leaveCircle(u)
  \/ \E u, w \in Users : removeMember(u, w)
  \/ \E u, w \in Users, r \in Roles : updateMemberRole(u, w, r)

SpecCircle == InitCircle /\ [][NextCircle]_vars

(***************************************************************************)
(* Circle requests that interleave.  After `await Circle.findById` the     *)
(* handler runs without a further await up to save(): begin loads the      *)
(* circle, runs the checks and the method on the loaded document; save is  *)
(* the write reaching the store; user is the update of User.circles that   *)
(* the handler awaits after the save.                                      *)
(***************************************************************************)
Begin(u, op, out) ==
  /\ reqs[u] = NoReq
  /\ InFlight < MaxInFlight
  /\ IF out.fail
     THEN /\ res' = out.res
          /\ UNCHANGED reqs
     ELSE /\ reqs' = [reqs EXCEPT ![u] =
                        [op |-> op, stage |-> "save", update |-> circle_delta(circle, out.doc),
                         res |-> out.res, userOp |-> out.userOp, target |-> out.target]]
          /\ UNCHANGED res
  /\ UNCHANGED <<now, circle, userCircles, alert, checkIn, io, users, second, tokenLog, inserted, client>>

joinCircleByCode_begin(u, code) == Begin(u, "join", joinCircleByCodeOn(circle, u, code))

leaveCircle_begin(u) == Begin(u, "leave", leaveCircleOn(circle, u))

removeMember_begin(u, userId) == Begin(u, "remove", removeMemberOn(circle, u, userId))

updateMemberRole_begin(u, userId, role) ==
  Begin(u, "role", updateMemberRoleOn(circle, u, userId, role))

CircleOps == {"join", "leave", "remove", "role"}

circle_request_save(u) ==
  /\ reqs[u].op \in CircleOps
  /\ reqs[u].stage = "save"
  /\ LET r == reqs[u]
         sv == circle_apply(circle, r.update)
     IN IF sv.err # ""
        THEN /\ res' = ErrorResponse(sv.err, SaveErrorCode(r.op))
             /\ reqs' = [reqs EXCEPT ![u] = NoReq]
             /\ UNCHANGED circle
        ELSE /\ circle' = sv.doc
             /\ IF r.userOp = "none"
                THEN /\ res' = r.res
                     /\ reqs' = [reqs EXCEPT ![u] = NoReq]
                ELSE /\ reqs' = [reqs EXCEPT ![u].stage = "user"]
                     /\ UNCHANGED res
  /\ UNCHANGED <<now, userCircles, alert, checkIn, io, users, second, tokenLog, inserted, client>>

circle_request_user(u) ==
  /\ reqs[u].op \in CircleOps
  /\ reqs[u].stage = "user"
  /\ userCircles' = UserUpdate(userCircles, reqs[u].userOp, reqs[u].target)
  /\ res' = reqs[u].res
  /\ reqs' = [reqs EXCEPT ![u] = NoReq]
  /\ UNCHANGED <<now, circle, alert, checkIn, io, users, second, tokenLog, inserted, client>>

\* the circle after createCircle by u1, joinCircleByCode by u2 and
\* updateMemberRole(u2, admin) by u1
CircleOfTwoAdmins ==
  LET created == NewCircle("u1", MaxSetting)
      joined == circle_save(created, created, circle_addMember(created, "u2", "member").doc).doc
  IN circle_save(joined, joined, circle_updateMemberRole(joined, "u2", "admin").doc).doc

InitCircleConc ==
  /\ now = 0
  /\ circle = CircleOfTwoAdmins
  /\ userCircles = {"u1", "u2"}
  /\ alert = NoAlert
  /\ checkIn = NoCheckIn
  /\ res = NoResponse
  /\ reqs = NoRequests
  /\ io = NoIo
  /\ users = RegisteredUsers
  /\ second = 0
  /\ tokenLog = NoTokenLog
  /\ inserted = NoInserted
  /\ client = NoClient

NextCircleConc ==
  \/ \E u \in Users, code \in InviteCodes : joinCircleByCode_begin(u, code)
  \/ \E u \in Users : leaveCircle_begin(u)
  \/ \E u, w \in Users : removeMember_begin(u, w)
  \/ \E u, w \in Users, r \in Roles : updateMemberRole_begin(u, w, r)
  \/ \E u \in Users : circle_request_save(u)
  \/ \E u \in Users : circle_request_user(u)

SpecCircleConc == InitCircleConc /\ [][NextCircleConc]_vars

(***************************************************************************)
(* Alert controllers.  <handler>On(a, c, ...) is the handler run on the    *)
(* loaded alert a and the loaded circle c up to its save.                  *)
(***************************************************************************)
Answer(r, d) == [fail |-> FALSE, res |-> r, doc |-> d]

Refuse(r, d) == [fail |-> TRUE, res |-> r, doc |-> d]

\* acknowledge that saves the acknowledgment before it checks the membership
acknowledgeAlertOn_saveFirst(a, c, u, response, notes) ==
  IF a.status = "none"
  THEN Refuse(ErrorResponse("Alert not found", 404), a)
  ELSE IF ~circle_isMember(c, u)
  THEN Answer(ErrorResponse("You must be a circle member to acknowledge alerts", 403),
              alert_acknowledge(a, u, response, notes).doc)
  ELSE Answer(Ok(200, "Alert acknowledged successfully"),
              alert_acknowledge(a, u, response, notes).doc)

acknowledgeAlertOn(a, c, u, response, notes) ==
  IF a.status = "none"
  THEN Refuse(ErrorResponse("Alert not found", 404), a)
  ELSE IF ~circle_isMember(c, u)
  THEN Refuse(ErrorResponse("You must be a circle member to acknowledge alerts", 403), a)
  ELSE Answer(Ok(200, "Alert acknowledged successfully"),
              alert_acknowledge(a, u, response, notes).doc)

\* resolve that lets every member of the circle resolve
resolveAlertOn_member(a, c, u, resolutionStatus) ==
  IF a.status = "none"
  THEN Refuse(ErrorResponse("Alert not found", 404), a)
  ELSE IF a.triggeredBy # u /\ ~circle_isMember(c, u)
  THEN Refuse(ErrorResponse("Only the alert creator or circle admin can resolve alerts",
                            403), a)
  ELSE LET m == alert_resolve(a, u, resolutionStatus)
       IN IF m.err # ""
          THEN Refuse(ErrorResponse(m.err, 400), a)
          ELSE Answer(Ok(200, "Alert resolved successfully"), m.doc)

resolveAlertOn(a, c, u, resolutionStatus) ==
  IF a.status = "none"
  THEN Refuse(ErrorResponse("Alert not found", 404), a)
  ELSE IF a.triggeredBy # u /\ ~circle_isAdmin(c, u)
  THEN Refuse(ErrorResponse("Only the alert creator or circle admin can resolve alerts",
                            403), a)
  ELSE LET m == alert_resolve(a, u, resolutionStatus)
       IN IF m.err # ""
          THEN Refuse(ErrorResponse(m.err, 400), a)
          ELSE Answer(Ok(200, "Alert resolved successfully"), m.doc)

cancelAlertOn(a, u) ==
  IF a.status = "none"
  THEN Refuse(ErrorResponse("Alert not found", 404), a)
  ELSE IF a.triggeredBy # u
  THEN Refuse(ErrorResponse("Only the alert creator can cancel alerts", 403), a)
  ELSE LET m == alert_cancel(a, u)
       IN IF m.err # ""
          THEN Refuse(ErrorResponse(m.err, 400), a)
          ELSE Answer(Ok(200, "Alert cancelled successfully"), m.doc)

markFalseAlarmOn(a, u) ==
  IF a.status = "none"
  THEN Refuse(ErrorResponse("Alert not found", 404), a)
  ELSE IF a.triggeredBy # u
  THEN Refuse(ErrorResponse("Only the alert creator can mark as false alarm", 403), a)
  ELSE Answer(Ok(200, "Alert marked as false alarm"), alert_markFalseAlarm(a, u).doc)

(***************************************************************************)
(* Alert requests that run alone                                           *)
(***************************************************************************)
\* the activity log is driven up to MaxLog entries
LogRoom(d) == Len(d.activityLog) <= MaxLog

AlertRequest(out) ==
  /\ LogRoom(out.doc)
  /\ IF out.fail
     THEN /\ res' = out.res
          /\ UNCHANGED alert
     ELSE /\ alert' = alert_save(alert, alert, out.doc)
          /\ res' = out.res
  /\ UNCHANGED <<now, circle, userCircles, checkIn, reqs, io, users, second, tokenLog, inserted, client>>

\* one alert is followed: the request that creates it
createAlert(u) ==
  /\ alert.status = "none"
  /\ IF ~circle.exists
     THEN /\ res' = ErrorResponse("Circle not found", 404)
          /\ UNCHANGED <<alert, circle, inserted>>
     ELSE IF ~circle_isMember(circle, u)
     THEN /\ res' = ErrorResponse("You must be a member of the circle to create an alert",
                                  403)
          /\ UNCHANGED <<alert, circle, inserted>>
     ELSE /\ alert' = NewAlert(u, now)
          /\ inserted' = [inserted EXCEPT !.alerts = @ + 1]
          /\ circle' = circle_save(circle, circle, circle_incrementAlerts(circle).doc).doc
          /\ res' = Ok(201, "Alert created successfully")
  /\ UNCHANGED <<now, userCircles, checkIn, reqs, io, users, second, tokenLog, client>>

acknowledgeAlert(u, response, notes) ==
  AlertRequest(acknowledgeAlertOn(alert, circle, u, response, notes))

resolveAlert(u, resolutionStatus) ==
  AlertRequest(resolveAlertOn(alert, circle, u, resolutionStatus))

cancelAlert(u) == AlertRequest(cancelAlertOn(alert, u))

markFalseAlarm(u) == AlertRequest(markFalseAlarmOn(alert, u))

\* a call of alert.escalate() on the stored alert
escalate ==
  /\ alert.status # "none"
  /\ LogRoom(alert_escalate(alert).doc)
  /\ alert' = alert_save(alert, alert, alert_escalate(alert).doc)
  /\ UNCHANGED <<now, circle, userCircles, checkIn, res, reqs, io, users, second, tokenLog, inserted, client>>

\* the circle after createCircle by u1 and joinCircleByCode by u2
CircleOfTwo ==
  LET created == NewCircle("u1", MaxSetting)
  IN circle_save(created, created, circle_addMember(created, "u2", "member").doc).doc

InitAlert ==
  /\ now = 0
  /\ circle = CircleOfTwo
  /\ userCircles = {"u1", "u2"}
  /\ alert = NoAlert
  /\ checkIn = NoCheckIn
  /\ res = NoResponse
  /\ reqs = NoRequests
  /\ io = NoIo
  /\ users = RegisteredUsers
  /\ second = 0
  /\ tokenLog = NoTokenLog
  /\ inserted = NoInserted
  /\ client = NoClient

NextAlert ==
  \/ \E u \in Users : createAlert(u)
  \/ \E u \in Users, r \in Responses, n \in NoteTexts : acknowledgeAlert(u, r, n)
  \/ \E u \in Users, rs \in ResolutionStatuses : resolveAlert(u, rs)
  \/ \E u \in Users : cancelAlert(u)
  \/ \E u \in Users : markFalseAlarm(u)
  \/ escalate

SpecAlert == InitAlert /\ [][NextAlert]_vars

(***************************************************************************)
(* Alert requests that interleave.  A handler awaits Alert.findById, then  *)
(* Circle.findById, and then runs without a further await up to save():    *)
(* load is the read of the alert; save is the rest of the handler on the   *)
(* loaded document (the circle does not change here) and the write         *)
(* reaching the store.  The escalation sweep scans with                    *)
(* findNeedingEscalation and calls escalate() on the documents it found.   *)
(***************************************************************************)
Load(u, r) ==
  /\ reqs[u] = NoReq
  /\ InFlight < MaxInFlight
  /\ Len(alert.activityLog) + InFlight < MaxLog
  /\ reqs' = [reqs EXCEPT ![u] = r]
  /\ UNCHANGED <<now, circle, userCircles, alert, checkIn, res, io, users, second, tokenLog, inserted, client>>

Save(u, out) ==
  /\ IF out.fail
     THEN /\ res' = out.res
          /\ UNCHANGED alert
     ELSE /\ alert' = alert_save(alert, reqs[u].loaded, out.doc)
          /\ res' = out.res
  /\ reqs' = [reqs EXCEPT ![u] = NoReq]
  /\ UNCHANGED <<now, circle, userCircles, checkIn, io, users, second, tokenLog, inserted, client>>

acknowledgeAlert_load(u, response, notes) ==
  Load(u, [op |-> "acknowledge", loaded |-> alert, response |-> response, notes |-> notes])

acknowledgeAlert_save(u) ==
  /\ reqs[u].op = "acknowledge"
  /\ Save(u, acknowledgeAlertOn(reqs[u].loaded, circle, u, reqs[u].response, reqs[u].notes))

resolveAlert_load(u, resolutionStatus) ==
  Load(u, [op |-> "resolve", loaded |-> alert, resolutionStatus |-> resolutionStatus])

resolveAlert_save(u) ==
  /\ reqs[u].op = "resolve"
  /\ Save(u, resolveAlertOn(reqs[u].loaded, circle, u, reqs[u].resolutionStatus))

sweep_scan ==
  /\ findNeedingEscalation(alert)
  /\ Load("sweep", [op |-> "escalate", loaded |-> alert])

sweep_escalate ==
  /\ reqs["sweep"].op = "escalate"
  /\ alert' = alert_save(alert, reqs["sweep"].loaded, alert_escalate(reqs["sweep"].loaded).doc)
  /\ reqs' = [reqs EXCEPT !["sweep"] = NoReq]
  /\ UNCHANGED <<now, circle, userCircles, checkIn, res, io, users, second, tokenLog, inserted, client>>

\* the alert u2 created at time 0, seen when it is older than the escalation
\* window; the circle's counter was incremented by createAlert
InitAlertConc ==
  /\ now = EscalationWindow + 1
  /\ circle = [CircleOfTwo EXCEPT !.stats.totalAlerts = 1]
  /\ userCircles = {"u1", "u2"}
  /\ alert = NewAlert("u2", 0)
  /\ checkIn = NoCheckIn
  /\ res = NoResponse
  /\ reqs = NoRequests
  /\ io = NoIo
  /\ users = RegisteredUsers
  /\ second = 0
  /\ tokenLog = NoTokenLog
  /\ inserted = [alerts |-> 1, checkIns |-> 0]
  /\ client = NoClient

NextAlertConc ==
  \/ \E u \in Users, r \in Responses, n \in NoteTexts : acknowledgeAlert_load(u, r, n)
  \/ \E u \in Users : acknowledgeAlert_save(u)
  \/ \E u \in Users, rs \in ResolutionStatuses : resolveAlert_load(u, rs)
  \/ \E u \in Users : resolveAlert_save(u)
  \/ sweep_scan
  \/ sweep_escalate

SpecAlertConc == InitAlertConc /\ [][NextAlertConc]_vars

(***************************************************************************)
(* CheckIn document: acknowledgments                                       *)
(***************************************************************************)
\* Latest time the clock is driven to.
MaxTime == 1
\* expectedReturnTime of the followed check-in: the clock reaches it
ReturnAfter == MaxTime
\* Acknowledge requests on the alert that are followed together with the check-in.
MaxAcks == MaxLog - 2

\* CheckIn.create in createCheckIn
NewCheckIn(u, expectedReturnTime) ==
  [ status |-> "active", user |-> u, expectedReturnTime |-> expectedReturnTime,
    acknowledgments |-> <<>>, completedAt |-> NoTime, completionNotes |-> "",
    completionStatus |-> "null", coordinates |-> <<0, 0>>, locationHistory |-> <<>>,
    isDeleted |-> FALSE ]

checkIn_addAcknowledgment(d, u, message) ==
  LET i == FirstIndex(d.acknowledgments, u)
      ack == [user |-> u, acknowledgedAt |-> now, message |-> message]
  IN Done([d EXCEPT !.acknowledgments =
             IF i > 0 THEN [@ EXCEPT ![i] = ack] ELSE Append(@, ack)])

\* the validator of expectedReturnTime, a required path: it runs on every save
checkIn_validate(d) == d.expectedReturnTime > now

\* the pre('save') hook, which runs after validation
checkIn_preSave(d) ==
  IF d.status = "active" /\ d.expectedReturnTime # NoTime /\ d.expectedReturnTime < now
  THEN [d EXCEPT !.status = "overdue"]
  ELSE d

\* document.save() of a loaded check-in
checkIn_save(stored, loaded, mutated) ==
  IF ~checkIn_validate(mutated)
  THEN Throw("Expected return time must be in the future", stored)
  ELSE LET hooked == checkIn_preSave(mutated)
       IN Done(
         [ status |-> Changed(loaded.status, hooked.status, stored.status),
           user |-> stored.user,
           expectedReturnTime |-> Changed(loaded.expectedReturnTime, hooked.expectedReturnTime,
                                          stored.expectedReturnTime),
           acknowledgments |->
             [i \in Indices(stored.acknowledgments) |->
                IF i <= Len(loaded.acknowledgments)
                THEN LET l == loaded.acknowledgments[i]
                         m == hooked.acknowledgments[i]
                         st == stored.acknowledgments[i]
                     IN [ user |-> st.user,
                          acknowledgedAt |-> Changed(l.acknowledgedAt, m.acknowledgedAt,
                                                     st.acknowledgedAt),
                          message |-> Changed(l.message, m.message, st.message) ]
                ELSE stored.acknowledgments[i]]
             \o Pushed(loaded.acknowledgments, hooked.acknowledgments),
           completedAt |-> Changed(loaded.completedAt, hooked.completedAt, stored.completedAt),
           completionNotes |->
             Changed(loaded.completionNotes, hooked.completionNotes, stored.completionNotes),
           completionStatus |->
             Changed(loaded.completionStatus, hooked.completionStatus,
                     stored.completionStatus),
           coordinates |-> Changed(loaded.coordinates, hooked.coordinates, stored.coordinates),
           locationHistory |->
             IF Len(hooked.locationHistory) >= Len(loaded.locationHistory)
                /\ SubSeq(hooked.locationHistory, 1, Len(loaded.locationHistory))
                     = loaded.locationHistory
             THEN stored.locationHistory
                    \o Pushed(loaded.locationHistory, hooked.locationHistory)
             ELSE hooked.locationHistory,
           isDeleted |-> Changed(loaded.isDeleted, hooked.isDeleted, stored.isDeleted) ])

acknowledgeCheckIn(u, message) ==
  /\ IF checkIn.status = "none"
     THEN /\ res' = ErrorResponse("Check-in not found", 404)
          /\ UNCHANGED checkIn
     ELSE IF ~circle_isMember(circle, u)
     THEN /\ res' = ErrorResponse("You must be a circle member to acknowledge check-ins", 403)
          /\ UNCHANGED checkIn
     ELSE LET sv == checkIn_save(checkIn, checkIn,
                                 checkIn_addAcknowledgment(checkIn, u, message).doc)
          IN IF sv.err # ""
             THEN /\ res' = ErrorResponse(sv.err, 500)
                  /\ UNCHANGED checkIn
             ELSE /\ checkIn' = sv.doc
                  /\ res' = Ok(200, "Check-in acknowledged successfully")
  /\ UNCHANGED <<now, circle, userCircles, alert, reqs, io, users, second, tokenLog, inserted, client>>

\* the clock
Tick ==
  /\ now < MaxTime
  /\ now' = now + 1
  /\ UNCHANGED <<circle, userCircles, alert, checkIn, res, reqs, io, users, second, tokenLog, inserted, client>>

\* the alert and the check-in u1 created at time 0 in the circle of u1 and u2
InitAck ==
  /\ now = 0
  /\ circle = [CircleOfTwo EXCEPT !.stats.totalAlerts = 1, !.stats.totalCheckIns = 1]
  /\ userCircles = {"u1", "u2"}
  /\ alert = NewAlert("u1", 0)
  /\ checkIn = NewCheckIn("u1", ReturnAfter)
  /\ res = NoResponse
  /\ reqs = NoRequests
  /\ io = NoIo
  /\ users = RegisteredUsers
  /\ second = 0
  /\ tokenLog = NoTokenLog
  /\ inserted = [alerts |-> 1, checkIns |-> 1]
  /\ client = NoClient

NextAck ==
  \/ \E u \in Users, r \in Responses, n \in NoteTexts :
       Len(alert.activityLog) <= MaxAcks /\ acknowledgeAlert(u, r, n)
  \/ \E u \in Users, m \in Messages : acknowledgeCheckIn(u, m)
  \/ Tick

SpecAck == InitAck /\ [][NextAck]_vars

(***************************************************************************)
(* Properties of the alert lifecycle (SpecAlert)                           *)
(***************************************************************************)
Last(s) == s[Len(s)]

\* the request was answered with an error and the stored alert is as before
Failed == res'.error # "" /\ alert' = alert

\* user u has a record in the acknowledgment list acks
HasAck(acks, u) == \E i \in Indices(acks) : acks[i].user = u

\* C1: once an alert is resolved, every cancel, resolve and markFalseAlarm on
\* it fails and leaves it unchanged; an acknowledge still records the
\* acknowledgment and the status stays resolved.
C1_ResolvedRejectsTransitions ==
  [][alert.status = "resolved" =>
       /\ \A u \in Users : cancelAlert(u) => Failed
       /\ \A u \in Users, rs \in ResolutionStatuses : resolveAlert(u, rs) => Failed
       /\ \A u \in Users : markFalseAlarm(u) => Failed
       /\ \A u \in Users, r \in Responses, n \in NoteTexts :
            (acknowledgeAlert(u, r, n) /\ res'.error = "") =>
              alert'.status = "resolved" /\ HasAck(alert'.acknowledgedBy, u)]_vars

TerminalStatuses == {"resolved", "cancelled", "false-alarm"}

\* C2: resolved, cancelled and false-alarm are terminal: an alert whose status
\* is one of them keeps that status through every later acknowledge, resolve,
\* cancel, markFalseAlarm and escalate.
C2_TerminalStatusesStay ==
  [][alert.status \in TerminalStatuses => alert'.status = alert.status]_vars

EscalatedEntries(d) ==
  Cardinality({i \in Indices(d.activityLog) : d.activityLog[i].action = "escalated"})

\* C9: escalation is idempotent (at most one escalated entry in the activity
\* log, autoEscalate.escalated never returns to false, escalate on an escalated
\* alert changes nothing) and escalate never fires on a resolved alert.
C9_EscalateIdempotentAndNotAfterResolve ==
  [][/\ EscalatedEntries(alert') <= 1
     /\ alert.autoEscalate.escalated => alert'.autoEscalate.escalated
     /\ (escalate /\ alert.autoEscalate.escalated) => alert' = alert
     /\ (escalate /\ alert.status = "resolved") => alert' = alert]_vars

(***************************************************************************)
(* Properties of interleaved alert requests (SpecAlertConc)                *)
(***************************************************************************)
HasEntry(d, action) == \E i \in Indices(d.activityLog) : d.activityLog[i].action = action

\* C3: when acknowledge and resolve requests on one alert interleave, no run
\* ends with an acknowledgment missing from acknowledgedBy, and none ends
\* with an alert that was resolved having another status again.
C3_NoLostAckNoResurrection ==
  InFlight = 0 =>
    /\ \A i \in Indices(alert.activityLog) :
         alert.activityLog[i].action = "acknowledged" =>
           HasAck(alert.acknowledgedBy, alert.activityLog[i].performedBy)
    /\ HasEntry(alert, "resolved") => alert.status = "resolved"

\* an escalated entry that follows a resolved entry in the activity log
EscalatedAfterResolved(d) ==
  \E i, j \in Indices(d.activityLog) :
     /\ i < j
     /\ d.activityLog[i].action = "resolved"
     /\ d.activityLog[j].action = "escalated"

C4_AlwaysAnActiveAdmin ==
  (circle.exists /\ circle.isActive) => adminCount(circle) >= 1

\* u is the only active admin of c
SoleAdmin(c, u) == circle_isAdmin(c, u) /\ adminCount(c) = 1

MembershipUnchanged == circle'.members = circle.members /\ userCircles' = userCircles

LastAdminRemoval == "Cannot remove the last admin from the circle"

LastAdminDemotion == "Cannot demote the last admin"

\* C5: removing the sole active admin and demoting the sole active admin fail
\* with the last-admin error, and the members list and the user's circles
\* list are then unchanged.
C5_LastAdminStays ==
  [][\A u \in Users :
       SoleAdmin(circle, u) =>
         /\ circle_removeMember(circle, u).err = LastAdminRemoval
         /\ circle_updateMemberRole(circle, u, "member").err = LastAdminDemotion
         /\ leaveCircle(u) =>
              res' = ErrorResponse(LastAdminRemoval, 400) /\ MembershipUnchanged
         /\ updateMemberRole(u, u, "member") =>
              res' = ErrorResponse(LastAdminDemotion, 400) /\ MembershipUnchanged
         /\ \A w \in Users :
              (removeMember(w, u) \/ updateMemberRole(w, u, "member")) =>
                res'.error # "" /\ MembershipUnchanged]_vars

\* the sole admin of a circle with another active member was refused to leave
C5_SoleAdminRefused ==
  /\ res = ErrorResponse(LastAdminRemoval, 400)
  /\ adminCount(circle) = 1
  /\ memberCount(circle) >= 2

\* C6: the number of active members of a circle is at most settings.maxMembers
\* in every state that addMember (new or reactivated user), join, invite,
\* leave, remove and update-circle requests reach.
C6_ActiveMembersWithinMax ==
  circle.exists => memberCount(circle) <= circle.settings.maxMembers

(***************************************************************************)
(* Properties of acknowledgment lists (SpecAck)                            *)
(***************************************************************************)
\* the records of user u in the acknowledgment list acks
RecordsOf(acks, u) == {i \in Indices(acks) : acks[i].user = u}

OneRecordPerUser(acks) == \A u \in Users : Cardinality(RecordsOf(acks, u)) <= 1

\* every user but u has the records in after that they have in before
OthersKept(before, after, u) ==
  \A w \in Users \ {u} :
    {after[i] : i \in RecordsOf(after, w)} = {before[i] : i \in RecordsOf(before, w)}

\* C8: after any sequence of acknowledge calls on an alert or a check-in the
\* acknowledgment list holds at most one record per user, and the record
\* carries the response and notes (alert) or the message (check-in) of the
\* user's latest acknowledge call.
C8_OneAckRecordPerUser ==
  [][/\ OneRecordPerUser(alert'.acknowledgedBy)
     /\ OneRecordPerUser(checkIn'.acknowledgments)
     /\ \A u \in Users, r \in Responses, n \in NoteTexts :
          (res'.error = "" /\ checkIn' = checkIn /\ acknowledgeAlert(u, r, n)) =>
            /\ \E i \in Indices(alert'.acknowledgedBy) :
                 alert'.acknowledgedBy[i] =
                   [user |-> u, acknowledgedAt |-> now, response |-> r, notes |-> n]
            /\ OthersKept(alert.acknowledgedBy, alert'.acknowledgedBy, u)
     /\ \A u \in Users, m \in Messages :
          (res'.error = "" /\ alert' = alert /\ acknowledgeCheckIn(u, m)) =>
            /\ \E i \in Indices(checkIn'.acknowledgments) :
                 checkIn'.acknowledgments[i] =
                   [user |-> u, acknowledgedAt |-> now, message |-> m]
            /\ OthersKept(checkIn.acknowledgments, checkIn'.acknowledgments, u)]_vars

\* a user acknowledged the alert twice and holds one record; both members
\* acknowledged the check-in, with different messages
C8_AcknowledgedTwice ==
  /\ \E u \in Users :
       /\ Cardinality({i \in Indices(alert.activityLog) :
                         /\ alert.activityLog[i].action = "acknowledged"
                         /\ alert.activityLog[i].performedBy = u}) >= 2
       /\ Cardinality(RecordsOf(alert.acknowledgedBy, u)) = 1
  /\ Len(checkIn.acknowledgments) = 2
  /\ checkIn.acknowledgments[1].message # checkIn.acknowledgments[2].message


(***************************************************************************)
(* Escalation as the server runs it.  escalate() has no caller and the     *)
(* server starts no timer: the code that looks at the escalation window is *)
(* GET /api/alerts/escalation-needed, which lists the alerts that need     *)
(* escalation.  The clock advances and the listing is polled, fairly.      *)
(***************************************************************************)
getAlertsNeedingEscalation(u) ==
  /\ res' = [code |-> 200, error |-> "",
             count |-> IF findNeedingEscalation(alert) THEN 1 ELSE 0]
  /\ UNCHANGED <<now, circle, userCircles, alert, checkIn, reqs, io, users, second, tokenLog, inserted, client>>

\* the clock, driven past the escalation window of an alert created late
Minute ==
  /\ now <= EscalationWindow + MaxTime
  /\ now' = now + 1
  /\ UNCHANGED <<circle, userCircles, alert, checkIn, res, reqs, io, users, second, tokenLog, inserted, client>>

NextEscalation ==
  \/ \E u \in Users : createAlert(u)
  \/ \E u \in Users, r \in Responses, n \in NoteTexts :
       Len(alert.activityLog) < MaxAcks /\ acknowledgeAlert(u, r, n)
  \/ \E u \in Users, rs \in ResolutionStatuses :
       Len(alert.activityLog) <= MaxAcks /\ resolveAlert(u, rs)
  \/ \E u \in Users : getAlertsNeedingEscalation(u)
  \/ Minute

SpecEscalation ==
  /\ InitAlert
  /\ [][NextEscalation]_vars
  /\ WF_vars(Minute)
  /\ WF_vars(\E u \in Users : getAlertsNeedingEscalation(u))

(***************************************************************************)
(* Properties of escalation (SpecEscalation)                               *)
(***************************************************************************)
\* C11: an alert that is active, unacknowledged, enabled for escalation, not
\* yet escalated and older than its escalation window is eventually escalated
\* (escalated = TRUE, priority 5, one "escalated" entry), unless it stops
\* being active first.
C11_OverdueAlertEventuallyEscalated ==
  findNeedingEscalation(alert)
    ~> \/ alert.status # "active"
       \/ /\ alert.autoEscalate.escalated
          /\ alert.priority = MaxPriority
          /\ EscalatedEntries(alert) = 1


(***************************************************************************)
(* CheckIn document: lifecycle methods                                     *)
(***************************************************************************)
\* Location updates of the followed check-in.
MaxLocations == 2
\* updateLocation keeps the last 50 entries of locationHistory
LocationHistoryCap == 50

Longitudes == {36, 181}
Latitudes == {-1, 91}

\* checkOverdue up to its save
checkIn_checkOverdue(d) ==
  IF d.status = "active" /\ d.expectedReturnTime < now
  THEN Done([d EXCEPT !.status = "overdue"])
  ELSE Done(d)

checkIn_complete(d, notes) ==
  IF d.status # "active" /\ d.status # "overdue"
  THEN Throw("Only active or overdue check-ins can be completed", d)
  ELSE Done([d EXCEPT
         !.status = "completed",
         !.completedAt = now,
         !.completionNotes = notes,
         !.completionStatus = IF d.expectedReturnTime > now THEN "early"
                              ELSE IF d.expectedReturnTime = now THEN "on-time"
                              ELSE "late"])

\* cancel without its guard
checkIn_cancel_unguarded(d) ==
  Done([d EXCEPT !.status = "cancelled"])

checkIn_cancel(d) ==
  IF d.status = "completed"
  THEN Throw("Cannot cancel a completed check-in", d)
  ELSE Done([d EXCEPT !.status = "cancelled"])

checkIn_updateLocation_keepOldest(d, longitude, latitude) ==
  IF d.status # "active"
  THEN Throw("Can only update location for active check-ins", d)
  ELSE LET history == Append(d.locationHistory,
                             [coordinates |-> <<longitude, latitude>>, timestamp |-> now])
       IN Done([d EXCEPT
            !.coordinates = <<longitude, latitude>>,
            !.locationHistory =
              IF Len(history) > LocationHistoryCap
              THEN SubSeq(history, 1, LocationHistoryCap)
              ELSE history])

checkIn_updateLocation(d, longitude, latitude) ==
  IF d.status # "active"
  THEN Throw("Can only update location for active check-ins", d)
  ELSE LET history == Append(d.locationHistory,
                             [coordinates |-> <<longitude, latitude>>, timestamp |-> now])
       IN Done([d EXCEPT
            !.coordinates = <<longitude, latitude>>,
            !.locationHistory =
              IF Len(history) > LocationHistoryCap
              THEN SubSeq(history, Len(history) - LocationHistoryCap + 1, Len(history))
              ELSE history])

(***************************************************************************)
(* CheckIn controllers                                                     *)
(***************************************************************************)
\* the handlers of the owner: findById, the ownership check, the method and
\* its save; a method or save error is answered with errorCode
OwnerRequest(u, refusal, m, message, errorCode) ==
  /\ IF checkIn.status = "none"
     THEN /\ res' = ErrorResponse("Check-in not found", 404)
          /\ UNCHANGED checkIn
     ELSE IF checkIn.user # u
     THEN /\ res' = ErrorResponse(refusal, 403)
          /\ UNCHANGED checkIn
     ELSE IF m.err # ""
     THEN /\ res' = ErrorResponse(m.err, errorCode)
          /\ UNCHANGED checkIn
     ELSE LET sv == checkIn_save(checkIn, checkIn, m.doc)
          IN IF sv.err # ""
             THEN /\ res' = ErrorResponse(sv.err, errorCode)
                  /\ UNCHANGED checkIn
             ELSE /\ checkIn' = sv.doc
                  /\ res' = Ok(200, message)
  /\ UNCHANGED <<now, circle, userCircles, alert, reqs, io, users, second, tokenLog, inserted, client>>

\* one check-in is followed: the request that creates it
createCheckIn(u, expectedReturnTime) ==
  /\ checkIn.status = "none"
  /\ IF ~circle.exists
     THEN /\ res' = ErrorResponse("Circle not found", 404)
          /\ UNCHANGED <<checkIn, circle, inserted>>
     ELSE IF ~circle_isMember(circle, u)
     THEN /\ res' = ErrorResponse("You must be a member of the circle to create a check-in",
                                  403)
          /\ UNCHANGED <<checkIn, circle, inserted>>
     ELSE IF ~checkIn_validate(NewCheckIn(u, expectedReturnTime))
     THEN /\ res' = ErrorResponse("Expected return time must be in the future", 500)
          /\ UNCHANGED <<checkIn, circle, inserted>>
     ELSE /\ checkIn' = NewCheckIn(u, expectedReturnTime)
          /\ inserted' = [inserted EXCEPT !.checkIns = @ + 1]
          /\ circle' = circle_save(circle, circle, circle_incrementCheckIns(circle).doc).doc
          /\ res' = Ok(201, "Check-in created successfully")
  /\ UNCHANGED <<now, userCircles, alert, reqs, io, users, second, tokenLog, client>>

completeCheckIn(u, notes) ==
  OwnerRequest(u, "You are not authorized to complete this check-in",
               checkIn_complete(checkIn, notes), "Check-in completed successfully", 400)

cancelCheckIn(u) ==
  OwnerRequest(u, "You are not authorized to cancel this check-in",
               checkIn_cancel(checkIn), "Check-in cancelled successfully", 400)

updateCheckInLocation(u, longitude, latitude) ==
  IF longitude < -180 \/ longitude > 180 \/ latitude < -90 \/ latitude > 90
  THEN /\ res' = ErrorResponse("Invalid coordinates", 400)
       /\ UNCHANGED <<now, circle, userCircles, alert, checkIn, reqs, io, users, second, tokenLog, inserted, client>>
  ELSE OwnerRequest(u, "You are not authorized to update this check-in",
                    checkIn_updateLocation(checkIn, longitude, latitude),
                    "Location updated successfully", 400)

deleteCheckIn(u) ==
  OwnerRequest(u, "You are not authorized to delete this check-in",
               Done([checkIn EXCEPT !.isDeleted = TRUE]),
               "Check-in deleted successfully", 500)

\* the answer carries the stored document and its virtual isOverdue
getCheckInById(u) ==
  /\ IF checkIn.status = "none"
     THEN res' = ErrorResponse("Check-in not found", 404)
     ELSE IF checkIn.user # u /\ ~circle_isMember(circle, u)
     THEN res' = ErrorResponse("You are not authorized to view this check-in", 403)
     ELSE res' = [ code |-> 200, error |-> "", status |-> checkIn.status,
                   isOverdue |-> /\ checkIn.status = "active"
                                 /\ checkIn.expectedReturnTime < now ]
  /\ UNCHANGED <<now, circle, userCircles, alert, checkIn, reqs, io, users, second, tokenLog, inserted, client>>

\* CheckIn.find({user, isDeleted: false}): the answer lists the stored documents
getMyCheckIns(u) ==
  /\ res' = IF checkIn.status # "none" /\ checkIn.user = u /\ ~checkIn.isDeleted
            THEN [ code |-> 200, error |-> "", count |-> 1, status |-> checkIn.status ]
            ELSE [ code |-> 200, error |-> "", count |-> 0, status |-> "none" ]
  /\ UNCHANGED <<now, circle, userCircles, alert, checkIn, reqs, io, users, second, tokenLog, inserted, client>>

\* a call of checkIn.checkOverdue() on the stored check-in
checkOverdue ==
  /\ checkIn.status # "none"
  /\ LET m == checkIn_checkOverdue(checkIn).doc
         sv == IF m = checkIn THEN Done(checkIn) ELSE checkIn_save(checkIn, checkIn, m)
     IN checkIn' = sv.doc
  /\ UNCHANGED <<now, circle, userCircles, alert, res, reqs, io, users, second, tokenLog, inserted, client>>

\* the clock, driven past the latest expected return time
TickPast ==
  /\ now <= MaxTime
  /\ now' = now + 1
  /\ UNCHANGED <<circle, userCircles, alert, checkIn, res, reqs, io, users, second, tokenLog, inserted, client>>

ReturnTimes == 0 .. MaxTime

NextCheckIn ==
  \/ \E u \in Users, t \in ReturnTimes : createCheckIn(u, t)
  \/ \E u \in Users, n \in NoteTexts : completeCheckIn(u, n)
  \/ \E u \in Users : cancelCheckIn(u)
  \/ \E u \in Users, lon \in Longitudes, lat \in Latitudes :
       /\ Len(checkIn.locationHistory) < MaxLocations
       /\ updateCheckInLocation(u, lon, lat)
  \/ \E u \in Users, m \in Messages : acknowledgeCheckIn(u, m)
  \/ \E u \in Users : deleteCheckIn(u)
  \/ \E u \in Users : getCheckInById(u)
  \/ \E u \in Users : getMyCheckIns(u)
  \/ checkOverdue
  \/ TickPast

SpecCheckIn == InitAlert /\ [][NextCheckIn]_vars


(***************************************************************************)
(* Properties of the check-in lifecycle (SpecCheckIn)                      *)
(***************************************************************************)
InvalidTransitionErrors ==
  { "Only active or overdue check-ins can be completed",
    "Cannot cancel a completed check-in",
    "Can only update location for active check-ins" }

\* complete, cancel or a location update with valid coordinates, by the owner
OwnerMutation ==
  \/ \E n \in NoteTexts : completeCheckIn(checkIn.user, n)
  \/ cancelCheckIn(checkIn.user)
  \/ \E lon \in Longitudes, lat \in Latitudes :
       /\ lon <= 180
       /\ lat <= 90
       /\ updateCheckInLocation(checkIn.user, lon, lat)

\* C12: once a check-in is completed or cancelled, every later complete,
\* cancel and location update by its owner fails with an invalid-transition
\* error and leaves the check-in unchanged.
C12_TerminalCheckInRefusesMutation ==
  [][ (checkIn.status \in {"completed", "cancelled"} /\ OwnerMutation)
        => /\ res'.error \in InvalidTransitionErrors
           /\ checkIn' = checkIn ]_vars

AllowedStatusChanges ==
  { <<"active", "completed">>, <<"active", "overdue">>, <<"active", "cancelled">>,
    <<"overdue", "completed">>, <<"overdue", "cancelled">> }

\* C13: every change of the stored status of an existing check-in is one of
\* active->completed, active->overdue, active->cancelled, overdue->completed,
\* overdue->cancelled.
C13_StatusChangesAllowed ==
  [][ (checkIn.status # "none" /\ checkIn'.status # checkIn.status)
        => <<checkIn.status, checkIn'.status>> \in AllowedStatusChanges ]_vars

\* the owner completed the check-in before the expected return time
C13_CompletedEarly ==
  /\ checkIn.status = "completed"
  /\ checkIn.completionStatus = "early"
  /\ res = Ok(200, "Check-in completed successfully")

PastDue ==
  /\ checkIn.status = "active"
  /\ checkIn.expectedReturnTime # NoTime
  /\ checkIn.expectedReturnTime < now

\* a read of the check-in by a user who may see it
AuthorizedRead ==
  \/ \E u \in Users : (u = checkIn.user \/ circle_isMember(circle, u)) /\ getCheckInById(u)
  \/ getMyCheckIns(checkIn.user)

\* a mutation of the check-in by a user who may perform it
AuthorizedMutation ==
  \/ OwnerMutation
  \/ deleteCheckIn(checkIn.user)
  \/ \E u \in Users, m \in Messages : circle_isMember(circle, u) /\ acknowledgeCheckIn(u, m)

\* C14: when the stored status is active and expectedReturnTime is in the
\* past, the next read answers with status overdue and the next mutation does
\* not leave the stored status active.
C14_PastDueObservedOverdue ==
  [][ PastDue => /\ AuthorizedRead => res'.status = "overdue"
                 /\ AuthorizedMutation => checkIn'.status # "active" ]_vars


(***************************************************************************)
(* Alert, check-in and circle commands together, in the circle of u1       *)
(* (admin) and u2: the alert is created by u2 or u3, the check-in by u1 or *)
(* u3, and u3 is outside the circle until invited.  The commands act on a  *)
(* fresh alert, and on the roles of u2 and u3.                             *)
(***************************************************************************)
NextCommands ==
  \/ \E u \in {"u2", "u3"} : createAlert(u)
  \/ \E u \in Users : Len(alert.activityLog) <= 1 /\ acknowledgeAlert(u, "monitoring", "")
  \/ \E u \in Users : Len(alert.activityLog) <= 1 /\ resolveAlert(u, "safe")
  \/ \E u \in Users : Len(alert.activityLog) <= 1 /\ cancelAlert(u)
  \/ \E u \in Users : Len(alert.activityLog) <= 1 /\ markFalseAlarm(u)
  \/ \E u \in {"u1", "u3"} : createCheckIn(u, ReturnAfter)
  \/ \E u \in Users : completeCheckIn(u, "")
  \/ \E u \in Users : cancelCheckIn(u)
  \/ \E u \in Users, lon \in Longitudes :
       checkIn.locationHistory = <<>> /\ updateCheckInLocation(u, lon, -1)
  \/ \E u \in Users : checkIn.acknowledgments = <<>> /\ acknowledgeCheckIn(u, "")
  \/ \E u \in Users : updateCircle(u, circle.settings.maxMembers)
  \/ \E u \in Users : deleteCircle(u)
  \/ \E u, w \in Users : inviteToCircle(u, w)
  \/ \E u \in Users : removeMember(u, "u3")
  \/ \E u \in Users, r \in Roles : updateMemberRole(u, "u2", r)

SpecCommands == InitAlert /\ [][NextCommands]_vars


\* C17: a command that is answered 403 leaves the circle, the users' circle
\* lists, the alert and the check-in exactly as they were.
C17_RejectedAuthorizationChangesNothing ==
  [][ res'.code = 403 => UNCHANGED <<circle, userCircles, alert, checkIn>> ]_vars

\* a command was refused while an alert and a check-in exist and u3 has a
\* member record
C17_Refused ==
  /\ res.code = 403
  /\ alert.status # "none"
  /\ checkIn.status # "none"
  /\ Len(circle.members) > 2

(***************************************************************************)
(* Alert commands while the membership of the circle changes               *)
(***************************************************************************)
NextLeave ==
  \/ \E u \in Users : createAlert(u)
  \/ \E u \in Users : Len(alert.activityLog) <= 2 /\ acknowledgeAlert(u, "monitoring", "")
  \/ \E u \in Users : Len(alert.activityLog) <= 2 /\ resolveAlert(u, "safe")
  \/ \E u \in Users : Len(alert.activityLog) <= 2 /\ cancelAlert(u)
  \/ \E u \in Users : Len(alert.activityLog) <= 2 /\ markFalseAlarm(u)
  \/ \E u \in Users, code \in InviteCodes : joinCircleByCode(u, code)
  \/ \E u \in Users : leaveCircle(u)
  \/ \E u, w \in Users : removeMember(u, w)
  \/ \E u, w \in Users, r \in Roles : updateMemberRole(u, w, r)

SpecLeave == InitAlert /\ [][NextLeave]_vars


(***************************************************************************)
(* Properties of alert authorization (SpecLeave)                           *)
(***************************************************************************)
Acknowledges(u) == \E r \in Responses, n \in NoteTexts : acknowledgeAlert(u, r, n)

Resolves(u) == \E rs \in ResolutionStatuses : resolveAlert(u, rs)

Rejected403 == res'.code = 403 /\ alert' = alert

\* C15: a user who is not an active member of the circle at the time of the
\* action, creator of the alert or not, cannot acknowledge or resolve it: the
\* command is answered 403 and the alert stays as it was.
C15_AuthorizedByCurrentMembership ==
  [][ \A u \in Users :
        (/\ alert.status # "none"
         /\ ~circle_isMember(circle, u)
         /\ (Acknowledges(u) \/ Resolves(u)))
        => Rejected403 ]_vars

\* C16: the alert becomes resolved only through a resolve by its creator or
\* by an active admin of the circle, and cancelled or false-alarm only through
\* a cancel or mark-false-alarm by its creator; the same commands by any other
\* user are answered 403 and change nothing.
C16_OnlyCreatorOrAdminCloses ==
  [][ /\ (alert.status # "resolved" /\ alert'.status = "resolved")
           => \E u \in Users : /\ u = alert.triggeredBy \/ circle_isAdmin(circle, u)
                               /\ Resolves(u)
      /\ (alert'.status # alert.status /\ alert'.status \in {"cancelled", "false-alarm"})
           => cancelAlert(alert.triggeredBy) \/ markFalseAlarm(alert.triggeredBy)
      /\ \A u \in Users :
           (/\ alert.status # "none"
            /\ u # alert.triggeredBy
            /\ \/ ~circle_isAdmin(circle, u) /\ Resolves(u)
               \/ cancelAlert(u)
               \/ markFalseAlarm(u))
           => Rejected403 ]_vars

\* an admin who did not create the alert resolved it
C16_ResolvedByAdmin ==
  /\ alert.status = "resolved"
  /\ alert.resolvedBy # alert.triggeredBy
  /\ circle_isAdmin(circle, alert.resolvedBy)
  /\ res = Ok(200, "Alert resolved successfully")


(***************************************************************************)
(* Socket.io: handshake, rooms and events.  A client connects with the     *)
(* credential it holds; the handlers of a socket are registered in the     *)
(* 'connection' callback, which runs only after the middleware accepted    *)
(* the handshake.  emit() hands the event to every socket in the room at   *)
(* that moment; nothing is stored for later.                               *)
(***************************************************************************)
\* the user of a token whose account no longer exists
UnknownUser == "u4"

CredentialKinds == {"missing", "malformed", "expired", "valid"}

\* socket.handshake.auth.token: none, or a token that names a user
Credentials ==
  {[kind |-> "missing", id |-> NoUser]}
    \cup {[kind |-> k, id |-> "u1"] : k \in {"malformed", "expired"}}
    \cup {[kind |-> "valid", id |-> u] : u \in Users \cup {UnknownUser}}

UserRoom(u) == <<"user", u>>

CircleRoom(c) == <<"circle", c>>

\* User.circles of the user the middleware loaded
CirclesOf(u) == IF u \in userCircles THEN {"c1"} ELSE {}

\* io.use without the check of user.isActive
authenticate_anyAccount(cred) ==
  IF cred.kind = "missing"
  THEN "Authentication error: Token not provided"
  ELSE IF cred.kind # "valid"
  THEN "Authentication error: Invalid token"
  ELSE IF cred.id \notin Users
  THEN "Authentication error: User not found"
  ELSE ""

\* io.use: the error the middleware passes to next(), "" when it accepts
authenticate(cred) ==
  IF cred.kind = "missing"
  THEN "Authentication error: Token not provided"
  ELSE IF cred.kind # "valid"
  THEN "Authentication error: Invalid token"
  ELSE IF cred.id \notin Users
  THEN "Authentication error: User not found"
  ELSE IF ~io.isActive[cred.id]
  THEN "Authentication error: Account deactivated"
  ELSE ""

\* the sockets in a room
Subscribers(sockets, room) ==
  {s \in Sockets : sockets[s].state = "open" /\ room \in sockets[s].rooms}

\* emit that also hands the event to the sockets that are not connected
Emit_queued(server, name, room, from, by, except) ==
  LET id == Len(server.published) + 1
  IN [server EXCEPT
       !.published = Append(@, [ name |-> name, room |-> room, from |-> from, by |-> by,
                                 audience |-> Subscribers(server.sockets, room) ]),
       !.sockets = [s \in Sockets |->
                      IF s # except
                      THEN [server.sockets[s] EXCEPT !.inbox = Append(@, id)]
                      ELSE server.sockets[s]]]

\* emit that puts the event before the events a socket already holds
Emit_newestFirst(server, name, room, from, by, except) ==
  LET id == Len(server.published) + 1
  IN [server EXCEPT
       !.published = Append(@, [ name |-> name, room |-> room, from |-> from, by |-> by,
                                 audience |-> Subscribers(server.sockets, room) ]),
       !.sockets = [s \in Sockets |->
                      IF s \in Subscribers(server.sockets, room) /\ s # except
                      THEN [server.sockets[s] EXCEPT !.inbox = <<id>> \o @]
                      ELSE server.sockets[s]]]

\* io.to(room).emit (except = "none") and socket.to(room).emit (except = the
\* emitting socket)
Emit(server, name, room, from, by, except) ==
  LET id == Len(server.published) + 1
  IN [server EXCEPT
       !.published = Append(@, [ name |-> name, room |-> room, from |-> from, by |-> by,
                                 audience |-> Subscribers(server.sockets, room) ]),
       !.sockets = [s \in Sockets |->
                      IF s \in Subscribers(server.sockets, room) /\ s # except
                      THEN [server.sockets[s] EXCEPT !.inbox = Append(@, id)]
                      ELSE server.sockets[s]]]

RECURSIVE EmitToEach(_, _, _, _, _)
\* socket.user.circles.forEach(circleId => socket.to(room).emit(name))
EmitToEach(server, name, circles, from, by) ==
  IF circles = {}
  THEN server
  ELSE LET c == CHOOSE x \in circles : TRUE
       IN EmitToEach(Emit(server, name, CircleRoom(c), from, by, from),
                     name, circles \ {c}, from, by)

SocketStep(server) ==
  /\ io' = server
  /\ UNCHANGED <<now, circle, userCircles, alert, checkIn, res, reqs, users, second, tokenLog, inserted, client>>

\* the handshake whose 'connection' callback joins the personal room only
connect_userRoomOnly(s, cred) ==
  /\ io.sockets[s].state # "open"
  /\ LET err == authenticate(cred)
         handshake == [io.sockets[s] EXCEPT !.auth = cred]
     IN SocketStep(
          [io EXCEPT !.sockets[s] =
             IF err # ""
             THEN [handshake EXCEPT !.state = "rejected", !.error = err,
                                    !.issued = Len(io.published)]
             ELSE [handshake EXCEPT
                     !.state = "open",
                     !.error = "",
                     !.issued = 0,
                     !.userId = cred.id,
                     !.circles = CirclesOf(cred.id),
                     !.rooms = {UserRoom(cred.id)}]])

\* the handshake: io.use, then the 'connection' callback
connect(s, cred) ==
  /\ io.sockets[s].state # "open"
  /\ LET err == authenticate(cred)
         handshake == [io.sockets[s] EXCEPT !.auth = cred]
     IN SocketStep(
          [io EXCEPT !.sockets[s] =
             IF err # ""
             THEN [handshake EXCEPT !.state = "rejected", !.error = err,
                                    !.issued = Len(io.published)]
             ELSE [handshake EXCEPT
                     !.state = "open",
                     !.error = "",
                     !.issued = 0,
                     !.userId = cred.id,
                     !.circles = CirclesOf(cred.id),
                     !.rooms = {UserRoom(cred.id)}
                                 \cup {CircleRoom(c) : c \in CirclesOf(cred.id)}]])

on_join_circle(s, circleId) ==
  /\ io.sockets[s].state = "open"
  /\ SocketStep([io EXCEPT !.sockets[s].rooms = @ \cup {CircleRoom(circleId)}])

on_leave_circle(s, circleId) ==
  /\ io.sockets[s].state = "open"
  /\ SocketStep([io EXCEPT !.sockets[s].rooms = @ \ {CircleRoom(circleId)}])

on_alert_trigger(s, circleId) ==
  /\ io.sockets[s].state = "open"
  /\ SocketStep(Emit(io, "alert:new", CircleRoom(circleId), s, io.sockets[s].userId, s))

on_alert_acknowledge(s, circleId) ==
  /\ io.sockets[s].state = "open"
  /\ SocketStep(Emit(io, "alert:acknowledged", CircleRoom(circleId), s, io.sockets[s].userId,
                     "none"))

on_alert_resolve(s, circleId) ==
  /\ io.sockets[s].state = "open"
  /\ SocketStep(Emit(io, "alert:resolved", CircleRoom(circleId), s, io.sockets[s].userId,
                     "none"))

\* the helper the server exports for its own events
emitToCircle(circleId, event) ==
  SocketStep(Emit(io, event, CircleRoom(circleId), "server", "server", "none"))

\* the socket has left its rooms when the 'disconnect' handler runs
on_disconnect(s) ==
  /\ io.sockets[s].state = "open"
  /\ LET closed == [io EXCEPT !.sockets[s] =
                      [@ EXCEPT !.state = "idle", !.auth = NoCredential, !.issued = 0,
                                !.userId = NoUser, !.circles = {}, !.rooms = {}]]
     IN SocketStep(EmitToEach(closed, "user:status-changed", io.sockets[s].circles, s,
                             io.sockets[s].userId))

\* u1 and u2 are in the circle, u3 is not; the account of u2 is deactivated
InitSocket ==
  /\ now = 0
  /\ circle = CircleOfTwo
  /\ userCircles = {"u1", "u2"}
  /\ alert = NoAlert
  /\ checkIn = NoCheckIn
  /\ res = NoResponse
  /\ reqs = NoRequests
  /\ io = [NoIo EXCEPT !.isActive["u2"] = FALSE]
  /\ users = RegisteredUsers
  /\ second = 0
  /\ tokenLog = NoTokenLog
  /\ inserted = NoInserted
  /\ client = NoClient

\* the events followed are bounded
EventsLeft == Len(io.published) < MaxEvents

NextSocket ==
  \/ \E s \in Sockets, cred \in Credentials : connect(s, cred)
  \/ \E s \in Sockets, c \in CircleIds : on_join_circle(s, c)
  \/ \E s \in Sockets, c \in CircleIds : on_leave_circle(s, c)
  \/ \E s \in Sockets, c \in CircleIds : EventsLeft /\ on_alert_trigger(s, c)
  \/ \E s \in Sockets, c \in CircleIds : EventsLeft /\ on_alert_acknowledge(s, c)
  \/ \E s \in Sockets, c \in CircleIds : EventsLeft /\ on_alert_resolve(s, c)
  \/ \E c \in CircleIds : EventsLeft /\ emitToCircle(c, "alert:new")
  \/ \E s \in Sockets :
       /\ Len(io.published) + Cardinality(io.sockets[s].circles) <= MaxEvents
       /\ on_disconnect(s)

SpecSocket == InitSocket /\ [][NextSocket]_vars


(***************************************************************************)
(* Properties of the real-time channel (SpecSocket)                        *)
(***************************************************************************)
\* a credential the handshake has to accept: a verified token of an existing,
\* active user
GoodCredential(cred) ==
  /\ cred.kind = "valid"
  /\ cred.id \in Users
  /\ io.isActive[cred.id]

Received(s, id) == \E k \in Indices(io.sockets[s].inbox) : io.sockets[s].inbox[k] = id

\* C18: a connection whose handshake presented a missing, malformed or
\* expired token, or the token of an unknown or deactivated user, is
\* rejected: it is in no room and receives none of the events emitted after
\* its handshake.
C18_BadCredentialRejected ==
  \A s \in Sockets :
    LET socket == io.sockets[s]
    IN (socket.auth # NoCredential /\ ~GoodCredential(socket.auth))
         => /\ socket.state = "rejected"
            /\ socket.rooms = {}
            /\ \A id \in 1 .. Len(io.published) : id > socket.issued => ~Received(s, id)

\* the token of the deactivated member u2 was rejected, and alert:new was
\* emitted to the room of u2's circle afterwards
C18_RejectedThenEmitted ==
  \E s \in Sockets, id \in Indices(io.published) :
    /\ io.sockets[s].state = "rejected"
    /\ io.sockets[s].auth = [kind |-> "valid", id |-> "u2"]
    /\ "c1" \in CirclesOf("u2")
    /\ id > io.sockets[s].issued
    /\ io.published[id].name = "alert:new"
    /\ io.published[id].room = CircleRoom("c1")
    /\ io.published[id].audience # {}

\* the user belongs to the circle
Belongs(u, c) == c = "c1" /\ circle_isMember(circle, u)

\* C19: a socket is in the room of a circle only if its user belongs to the
\* circle, and a socket's event is emitted to the room of a circle only if its
\* user belongs to the circle.
C19_RoomsAreMembershipScoped ==
  /\ \A s \in Sockets, c \in CircleIds :
       (io.sockets[s].state = "open" /\ CircleRoom(c) \in io.sockets[s].rooms)
         => Belongs(io.sockets[s].userId, c)
  /\ \A id \in Indices(io.published), c \in CircleIds :
       (io.published[id].from \in Sockets /\ io.published[id].room = CircleRoom(c))
         => Belongs(io.published[id].by, c)

\* the events a socket relays with socket.to(room): the emitting socket is
\* left out
RelayedEvents == {"alert:new", "user:status-changed"}

on_checkin_create(s, circleId) ==
  /\ io.sockets[s].state = "open"
  /\ SocketStep(Emit(io, "checkin:new", CircleRoom(circleId), s, io.sockets[s].userId, s))

on_checkin_complete(s, circleId) ==
  /\ io.sockets[s].state = "open"
  /\ SocketStep(Emit(io, "checkin:completed", CircleRoom(circleId), s, io.sockets[s].userId,
                     "none"))

on_location_update(s, circleId) ==
  /\ io.sockets[s].state = "open"
  /\ SocketStep(Emit(io, "location:updated", CircleRoom(circleId), s, io.sockets[s].userId, s))

\* PUT /api/users/privacy with shareLocationWithCircles in the body
updatePrivacySettings(u, shareLocationWithCircles) ==
  /\ users' = [users EXCEPT
                 ![u].privacySettings.shareLocationWithCircles = shareLocationWithCircles]
  /\ res' = Ok(200, "Privacy settings updated successfully")
  /\ UNCHANGED <<now, circle, userCircles, alert, checkIn, reqs, io, second, tokenLog, inserted, client>>

(***************************************************************************)
(* Lifecycle commands (REST) next to the sockets of the members: the       *)
(* clients of u1 and u2 connect, send commands and send signals.           *)
(***************************************************************************)
\* the tokens the clients of the members hold
MemberCredentials == {[kind |-> "valid", id |-> u] : u \in {"u1", "u2"}}

NextFanout ==
  \/ \E s \in Sockets, cred \in MemberCredentials : connect(s, cred)
  \/ \E u \in {"u1", "u3"} : createAlert(u)
  \/ \E u \in Users : Len(alert.activityLog) <= 1 /\ acknowledgeAlert(u, "monitoring", "")
  \/ \E u \in Users : Len(alert.activityLog) <= 2 /\ resolveAlert(u, "safe")
  \/ \E u \in {"u1", "u3"} : createCheckIn(u, ReturnAfter)
  \/ \E u \in Users : completeCheckIn(u, "")
  \/ \E s \in Sockets : EventsLeft /\ on_alert_trigger(s, "c1")
  \/ \E s \in Sockets : EventsLeft /\ on_alert_acknowledge(s, "c1")
  \/ \E s \in Sockets : EventsLeft /\ on_alert_resolve(s, "c1")
  \/ \E s \in Sockets : EventsLeft /\ on_checkin_create(s, "c1")
  \/ \E s \in Sockets : EventsLeft /\ on_checkin_complete(s, "c1")

SpecFanout == InitAlert /\ [][NextFanout]_vars

(***************************************************************************)
(* Properties of the fan-out (SpecFanout)                                  *)
(***************************************************************************)
\* the lifecycle command an event reports, answered with success, its
\* transition stored
CommandOf(name) ==
  CASE name = "alert:new" ->
         (\E u \in Users : createAlert(u)) /\ res'.code = 201 /\ alert' # alert
    [] name = "alert:acknowledged" ->
         (\E u \in Users : Acknowledges(u)) /\ res'.code = 200 /\ alert' # alert
    [] name = "alert:resolved" ->
         (\E u \in Users : Resolves(u)) /\ res'.code = 200 /\ alert' # alert
    [] name = "checkin:new" ->
         (\E u \in Users, t \in ReturnTimes : createCheckIn(u, t))
           /\ res'.code = 201 /\ checkIn' # checkIn
    [] name = "checkin:completed" ->
         (\E u \in Users, n \in NoteTexts : completeCheckIn(u, n))
           /\ res'.code = 200 /\ checkIn' # checkIn
    [] OTHER -> FALSE

FanoutEvents ==
  {"alert:new", "alert:acknowledged", "alert:resolved", "checkin:new", "checkin:completed"}

\* the step emits the event name to the room of the circle
Publishes(name) ==
  /\ Len(io'.published) = Len(io.published) + 1
  /\ Last(io'.published).name = name
  /\ Last(io'.published).room = CircleRoom("c1")

\* C21: a fan-out event is published to the room of the circle only by the
\* step in which its lifecycle command passed authorization and stored its
\* transition, and every such step publishes its event.
C21_EventsFollowCommands ==
  [][ \A name \in FanoutEvents : Publishes(name) <=> CommandOf(name) ]_vars


(***************************************************************************)
(* Location sharing: the members set their privacy flag and their clients  *)
(* send location updates                                                   *)
(***************************************************************************)
NextPrivacy ==
  \/ \E s \in Sockets, cred \in MemberCredentials : connect(s, cred)
  \/ \E u \in {"u1", "u2"}, share \in BOOLEAN : updatePrivacySettings(u, share)
  \/ \E s \in Sockets, c \in CircleIds : EventsLeft /\ on_location_update(s, c)
  \/ \E s \in Sockets, c \in CircleIds : on_leave_circle(s, c)
  \/ \E s \in Sockets, c \in CircleIds : on_join_circle(s, c)

SpecPrivacy == InitAlert /\ [][NextPrivacy]_vars

\* the stored flag of the user of socket s
SharesLocation(s) == users[io.sockets[s].userId].privacySettings.shareLocationWithCircles

\* C22: while the shareLocationWithCircles flag of a user is false, a
\* location update of that user delivers location:updated to no socket: the
\* event is suppressed.
C22_OptedOutLocationSuppressed ==
  [][ \A s \in Sockets, c \in CircleIds :
        (on_location_update(s, c) /\ ~SharesLocation(s))
          => \A t \in Sockets : io'.sockets[t].inbox = io.sockets[t].inbox ]_vars


(***************************************************************************)
(* Joining by invite code, up to and past the expiry of the code           *)
(***************************************************************************)
\* the clock, in steps of the lifetime of an invite code
Month ==
  /\ now < 2 * InviteCodeMinutes
  /\ now' = now + InviteCodeMinutes
  /\ UNCHANGED <<circle, userCircles, alert, checkIn, res, reqs, io, users, second, tokenLog, inserted, client>>

NextJoin ==
  \/ \E u \in Users, m \in 1..MaxSetting : createCircle(u, m)
  \/ \E u \in Users, code \in InviteCodes : joinCircleByCode(u, code)
  \/ \E u \in Users : leaveCircle(u)
  \/ \E u, w \in Users : removeMember(u, w)
  \/ \E u \in Users : deleteCircle(u)
  \/ Month

SpecJoin == InitCircle /\ [][NextJoin]_vars

(***************************************************************************)
(* Properties of joining by code (SpecJoin)                                *)
(***************************************************************************)
CodeKnown(code) == circle.exists /\ circle.inviteCode = code

CodeExpired == circle.inviteCodeExpiry <= now

Joined(u) == /\ res' = Ok(200, "Successfully joined circle")
             /\ circle_isMember(circle', u)
             /\ u \in userCircles'

JoinRefused(msg, code) == res' = ErrorResponse(msg, code) /\ MembershipUnchanged

MemberLimit == "Circle has reached maximum member limit"

\* the user has no member record and every place of the circle is taken
NoPlaceFor(u) ==
  FirstIndex(circle.members, u) = 0 /\ memberCount(circle) >= circle.settings.maxMembers

\* C23 as stated: join by code fails with not-found, expired, already-member,
\* checked in that order, and leaves the members and the user's circles list
\* unchanged; in every other case the user becomes an active member.
C23_JoinByCodeOutcomes ==
  [][ \A u \in Users, code \in InviteCodes :
        joinCircleByCode(u, code) =>
          IF ~CodeKnown(code) THEN JoinRefused("Invalid invite code", 404)
          ELSE IF CodeExpired THEN JoinRefused("Invite code has expired", 400)
          ELSE IF circle_isMember(circle, u)
          THEN JoinRefused("You are already a member of this circle", 400)
          ELSE Joined(u) ]_vars

\* C23: join by code fails with not-found, expired, already-member, checked
\* in that order, and with the member-limit error when the user has no member
\* record and the circle is full; each failure leaves the members and the
\* user's circles list unchanged; in every other case the user becomes an
\* active member.
C23_JoinByCodeOutcomesOrFull ==
  [][ \A u \in Users, code \in InviteCodes :
        joinCircleByCode(u, code) =>
          IF ~CodeKnown(code) THEN JoinRefused("Invalid invite code", 404)
          ELSE IF CodeExpired THEN JoinRefused("Invite code has expired", 400)
          ELSE IF circle_isMember(circle, u)
          THEN JoinRefused("You are already a member of this circle", 400)
          ELSE IF NoPlaceFor(u) THEN JoinRefused(MemberLimit, 400)
          ELSE Joined(u) ]_vars

\* a join with a known, unexpired code was refused because the circle is full
C23_RefusedWhenFull ==
  /\ res = ErrorResponse(MemberLimit, 400)
  /\ circle.inviteCodeExpiry > now
  /\ memberCount(circle) = circle.settings.maxMembers
  /\ Cardinality(userCircles) = memberCount(circle)


(***************************************************************************)
(* Authentication: login with the failed-attempt lock, logout, refresh     *)
(* and password update of one account.  Date.now() is followed in minutes  *)
(* (now) for the lock and in seconds (second) for the stamp of the tokens. *)
(***************************************************************************)
\* incLoginAttempts: maxAttempts
MaxLoginAttempts == 5
\* incLoginAttempts: lockTime, 2 hours in minutes
LockTime == 120
\* Latest second a token is signed in.
MaxSecond == 1

\* the virtual isLocked
isLocked(a) == a.lockUntil # NoTime /\ a.lockUntil > now

\* incLoginAttempts without the lock
user_incLoginAttempts_noLock(a) ==
  IF a.lockUntil # NoTime /\ a.lockUntil < now
  THEN [a EXCEPT !.failedLoginAttempts = 1, !.lockUntil = NoTime]
  ELSE [a EXCEPT !.failedLoginAttempts = @ + 1]

\* incLoginAttempts: the document after its updateOne
user_incLoginAttempts(a) ==
  IF a.lockUntil # NoTime /\ a.lockUntil < now
  THEN [a EXCEPT !.failedLoginAttempts = 1, !.lockUntil = NoTime]
  ELSE [a EXCEPT
          !.failedLoginAttempts = @ + 1,
          !.lockUntil = IF a.failedLoginAttempts + 1 >= MaxLoginAttempts /\ ~isLocked(a)
                        THEN now + LockTime
                        ELSE @]

\* resetLoginAttempts: the document after its updateOne
user_resetLoginAttempts(a) ==
  [a EXCEPT !.failedLoginAttempts = 0, !.lockUntil = NoTime]

Unauthorized == "Invalid email or password"

Locked ==
  "Your account is temporarily locked due to multiple failed login attempts. Please try again later."

\* the answer of login and refresh: status, message, lockUntil, refresh token
AuthResponse(code, msg, lockUntil, token) ==
  [code |-> code, error |-> msg, lockUntil |-> lockUntil, refreshToken |-> token]

\* the refresh token t is issued
Issue(t) == [tokenLog EXCEPT !.issued = @ \cup {t}]

\* POST /api/auth/login with the email of user u
login(u, password) ==
  /\ IF u \notin Users
     THEN /\ res' = AuthResponse(401, Unauthorized, NoTime, NoToken)
          /\ UNCHANGED <<users, tokenLog, inserted, client>>
     ELSE IF isLocked(users[u])
     THEN /\ res' = AuthResponse(403, Locked, users[u].lockUntil, NoToken)
          /\ UNCHANGED <<users, tokenLog, inserted, client>>
     ELSE IF password # users[u].password
     THEN /\ users' = [users EXCEPT ![u] = user_incLoginAttempts(@)]
          /\ res' = AuthResponse(401, Unauthorized, NoTime, NoToken)
          /\ UNCHANGED tokenLog
     ELSE LET t == RefreshToken(u, second)
          IN /\ users' = [users EXCEPT
                            ![u] = [user_resetLoginAttempts(@) EXCEPT !.refreshToken = t]]
             /\ res' = AuthResponse(200, "", NoTime, t)
             /\ tokenLog' = [issued |-> tokenLog.issued \cup {t},
                             revoked |-> {r \in tokenLog.revoked : r.id # u}]
  /\ UNCHANGED <<now, circle, userCircles, alert, checkIn, reqs, io, second, inserted, client>>

\* the access token a client sends
AccessTokens == {"valid", "expired"}

\* the middleware protect: the status it answers with, 0 when it calls next()
protect(u, access) ==
  IF access # "valid" THEN 401
  ELSE IF u \notin Users THEN 401
  ELSE IF ~io.isActive[u] THEN 403
  ELSE IF isLocked(users[u]) THEN 403
  ELSE 0

\* logout that leaves the stored refresh token
logout_keepToken(u, access) ==
  /\ IF protect(u, access) # 0
     THEN /\ res' = ErrorResponse("Not authorized", protect(u, access))
          /\ UNCHANGED <<users, tokenLog, inserted, client>>
     ELSE /\ users' = users
          /\ res' = Ok(200, "Logout successful")
          /\ tokenLog' = [tokenLog EXCEPT
                            !.revoked = @ \cup {t \in tokenLog.issued : t.id = u}]
  /\ UNCHANGED <<now, circle, userCircles, alert, checkIn, reqs, io, second, inserted, client>>

\* POST /api/auth/logout behind protect
logout(u, access) ==
  /\ IF protect(u, access) # 0
     THEN /\ res' = ErrorResponse("Not authorized", protect(u, access))
          /\ UNCHANGED <<users, tokenLog, inserted, client>>
     ELSE /\ users' = [users EXCEPT ![u].refreshToken = NoToken]
          /\ res' = Ok(200, "Logout successful")
          /\ tokenLog' = [tokenLog EXCEPT
                            !.revoked = @ \cup {t \in tokenLog.issued : t.id = u}]
  /\ UNCHANGED <<now, circle, userCircles, alert, checkIn, reqs, io, second, inserted, client>>

\* a string that jwt.verify rejects
Forged == [id |-> "u1", iat |-> -2]

\* POST /api/auth/refresh on the stored users: verifyRefreshToken, then the
\* handler; the answer, the users and the token log after it
refreshTokenOn(token) ==
  IF token = NoToken
  THEN [res |-> AuthResponse(401, "Refresh token is required", NoTime, NoToken),
        users |-> users, tokenLog |-> tokenLog]
  ELSE IF token = Forged \/ token.id \notin Users
  THEN [res |-> AuthResponse(401, "Invalid refresh token", NoTime, NoToken),
        users |-> users, tokenLog |-> tokenLog]
  ELSE IF users[token.id].refreshToken # token
  THEN [res |-> AuthResponse(401, "Invalid refresh token. Please log in again.",
                             NoTime, NoToken),
        users |-> users, tokenLog |-> tokenLog]
  ELSE IF ~io.isActive[token.id]
  THEN [res |-> AuthResponse(403, "Your account has been deactivated", NoTime, NoToken),
        users |-> users, tokenLog |-> tokenLog]
  ELSE LET t == RefreshToken(token.id, second)
       IN [res |-> AuthResponse(200, "", NoTime, t),
           users |-> [users EXCEPT ![token.id].refreshToken = t],
           tokenLog |-> Issue(t)]

\* POST /api/auth/refresh
refreshToken(token) ==
  /\ res' = refreshTokenOn(token).res
  /\ users' = refreshTokenOn(token).users
  /\ tokenLog' = refreshTokenOn(token).tokenLog
  /\ UNCHANGED <<now, circle, userCircles, alert, checkIn, reqs, io, second, inserted, client>>

\* PUT /api/auth/updatepassword behind protect, with passwords of 8 characters
updatePassword(u, access, currentPassword, newPassword) ==
  /\ IF protect(u, access) # 0
     THEN /\ res' = ErrorResponse("Not authorized", protect(u, access))
          /\ UNCHANGED <<users, tokenLog, inserted, client>>
     ELSE IF currentPassword # users[u].password
     THEN /\ res' = ErrorResponse("Current password is incorrect", 401)
          /\ UNCHANGED <<users, tokenLog, inserted, client>>
     ELSE LET t == RefreshToken(u, second)
          IN /\ users' = [users EXCEPT ![u].password = newPassword, ![u].refreshToken = t]
             /\ res' = AuthResponse(200, "", NoTime, t)
             /\ tokenLog' = Issue(t)
  /\ UNCHANGED <<now, circle, userCircles, alert, checkIn, reqs, io, second, inserted, client>>

\* the clock of the tokens
Second ==
  /\ second < MaxSecond
  /\ second' = second + 1
  /\ UNCHANGED <<now, circle, userCircles, alert, checkIn, res, reqs, io, users, tokenLog, inserted, client>>

\* the clock, in steps of the lock time
Hours ==
  /\ now < 2 * LockTime
  /\ now' = now + LockTime
  /\ UNCHANGED <<circle, userCircles, alert, checkIn, res, reqs, io, users, second, tokenLog, inserted, client>>

\* the refresh tokens a client presents: none, a forged one, the ones that
\* can have been issued to u1, one of an account that does not exist
PresentedTokens ==
  {NoToken, Forged, RefreshToken(UnknownUser, 0)}
    \cup {RefreshToken("u1", i) : i \in 0 .. MaxSecond}

NextAuth ==
  \/ \E u \in {"u1", UnknownUser}, pw \in Passwords : login(u, pw)
  \/ \E a \in AccessTokens : logout("u1", a)
  \/ \E t \in PresentedTokens : refreshToken(t)
  \/ \E a \in AccessTokens, cur, new \in Passwords : updatePassword("u1", a, cur, new)
  \/ Second
  \/ Hours

SpecAuth == InitCircle /\ [][NextAuth]_vars

(***************************************************************************)
(* Properties of authentication (SpecAuth)                                 *)
(***************************************************************************)
\* C24: a failed login that brings the counter to 5 or more locks the account
\* until lockUntil; while the account is locked every login, with the correct
\* password too, is answered 403 with lockUntil, issues no credentials and
\* changes neither the counter nor lockUntil; a successful login resets the
\* counter to 0 and clears the lock.
C24_LockAfterFiveFailures ==
  [][ \A pw \in Passwords :
        login("u1", pw) =>
          LET a == users["u1"]
              b == users'["u1"]
          IN IF isLocked(a)
             THEN /\ res' = AuthResponse(403, Locked, a.lockUntil, NoToken)
                  /\ users' = users
                  /\ tokenLog' = tokenLog
             ELSE IF pw # a.password
             THEN /\ res'.code = 401
                  /\ res'.refreshToken = NoToken
                  /\ b.refreshToken = a.refreshToken
                  /\ b.failedLoginAttempts =
                       IF a.lockUntil # NoTime /\ a.lockUntil < now
                       THEN 1
                       ELSE a.failedLoginAttempts + 1
                  /\ b.failedLoginAttempts >= MaxLoginAttempts
                       => b.lockUntil # NoTime /\ b.lockUntil > now
             ELSE /\ res'.code = 200
                  /\ res'.refreshToken = b.refreshToken
                  /\ b.failedLoginAttempts = 0
                  /\ b.lockUntil = NoTime ]_vars

\* five failed logins locked the account, and a login was answered 403 with
\* the lockUntil of the account
C24_LockedOut ==
  /\ users["u1"].failedLoginAttempts = MaxLoginAttempts
  /\ isLocked(users["u1"])
  /\ res = AuthResponse(403, Locked, users["u1"].lockUntil, NoToken)

StoredToken == users["u1"].refreshToken

\* a logout by a client whose access token protect accepts
LogsOut == protect("u1", "valid") = 0 /\ logout("u1", "valid")

StoresToken ==
  \/ \E pw \in Passwords : login("u1", pw)
  \/ \E a \in AccessTokens, cur, new \in Passwords : updatePassword("u1", a, cur, new)

C26_CompletionStatusByDeadline ==
  [][ \A n \in NoteTexts :
        (checkIn.status \in {"active", "overdue"} /\ completeCheckIn(checkIn.user, n))
          => /\ checkIn'.status = "completed"
             /\ checkIn'.completionStatus =
                  IF now < checkIn.expectedReturnTime THEN "early"
                  ELSE IF now > checkIn.expectedReturnTime THEN "late"
                  ELSE "on-time" ]_vars


\* a location update with valid coordinates by the owner of the check-in
OwnerLocationUpdate ==
  \E lon \in Longitudes, lat \in Latitudes :
    /\ lon <= 180
    /\ lat <= 90
    /\ updateCheckInLocation(checkIn.user, lon, lat)

LocationUnchanged ==
  /\ checkIn'.coordinates = checkIn.coordinates
  /\ checkIn'.locationHistory = checkIn.locationHistory

\* C27: a location update succeeds only on a check-in that is active and not
\* past its expectedReturnTime; on an overdue one (stored as overdue, or
\* stored as active and past due), and on a completed or cancelled one, it
\* fails with the invalid-transition error and leaves the location and the
\* location history unchanged.
C27_UpdateLocationOnlyWhileActive ==
  [][ (checkIn.status # "none" /\ OwnerLocationUpdate)
        => IF checkIn.status = "active" /\ ~PastDue
           THEN TRUE
           ELSE /\ res' = ErrorResponse("Can only update location for active check-ins", 400)
                /\ LocationUnchanged ]_vars


(***************************************************************************)
(* A check-in whose owner walks east and reports every position            *)
(***************************************************************************)
\* the position reported after the stored one: one degree further east
NextLongitude == checkIn.coordinates[1] + 1

NextLocation ==
  \/ \E u \in {"u1", "u3"} : createCheckIn(u, MaxTime + 1)
  \/ \E u \in Users :
       /\ checkIn.status # "none"
       /\ NextLongitude <= LocationHistoryCap + MaxLocations
       /\ updateCheckInLocation(u, NextLongitude, -1)
  \/ \E u \in Users : updateCheckInLocation(u, 181, -1)
  \/ \E u \in Users : cancelCheckIn(u)
  \/ TickPast

SpecLocation == InitAlert /\ [][NextLocation]_vars

\* C28: after any number of successful location updates, locationHistory has
\* at most 50 entries, they are the most recent samples in the order they
\* were recorded, and the current location is the last sample.  The owner
\* reports longitudes 1, 2, 3, ...: the stored longitude is the number of
\* samples recorded so far.
C28_HistoryKeepsNewestSamples ==
  checkIn.status # "none" =>
    LET h == checkIn.locationHistory
        recorded == checkIn.coordinates[1]
    IN /\ Len(h) <= 50
       /\ Len(h) = IF recorded < 50 THEN recorded ELSE 50
       /\ \A i \in 1 .. Len(h) :
            /\ h[i].coordinates = <<recorded - Len(h) + i, -1>>
            /\ i > 1 => h[i - 1].timestamp <= h[i].timestamp
       /\ h # <<>> => checkIn.coordinates = h[Len(h)].coordinates

\* the fifty-second sample has been stored: the two oldest are gone
C28_OldestDropped ==
  /\ res = Ok(200, "Location updated successfully")
  /\ Len(checkIn.locationHistory) = 50
  /\ checkIn.locationHistory[1].coordinates = <<3, -1>>
  /\ checkIn.coordinates = <<52, -1>>


(***************************************************************************)
(* The escalation listing among the alert handlers, deletion included      *)
(***************************************************************************)
deleteAlertOn(a, u) ==
  IF a.status = "none"
  THEN Refuse(ErrorResponse("Alert not found", 404), a)
  ELSE IF a.triggeredBy # u /\ ~circle_isAdmin(circle, u)
  THEN Refuse(ErrorResponse("Only the alert creator or circle admin can delete alerts", 403), a)
  ELSE Answer(Ok(200, "Alert deleted successfully"), [a EXCEPT !.isDeleted = TRUE])

deleteAlert(u) == AlertRequest(deleteAlertOn(alert, u))

NextScan ==
  \/ \E u \in Users : createAlert(u)
  \/ \E u \in Users, r \in Responses, n \in NoteTexts :
       Len(alert.activityLog) < MaxAcks /\ acknowledgeAlert(u, r, n)
  \/ \E u \in Users, rs \in ResolutionStatuses :
       Len(alert.activityLog) <= MaxAcks /\ resolveAlert(u, rs)
  \/ \E u \in Users : deleteAlert(u)
  \/ \E u \in Users : getAlertsNeedingEscalation(u)
  \/ Minute

SpecScan == InitAlert /\ [][NextScan]_vars

\* the four conditions of the scan, the window being the alert's own
\* escalateAfterMinutes
DueByOwnWindow ==
  /\ alert.status = "active"
  /\ alert.autoEscalate.enabled
  /\ ~alert.autoEscalate.escalated
  /\ alert.createdAt < now - alert.autoEscalate.escalateAfterMinutes

\* C29: the escalation scan selects an alert exactly when it is active,
\* enabled for escalation, not yet escalated and created more than its own
\* escalateAfterMinutes ago.
C29_ScanSelectsByOwnWindow ==
  [][ (\E u \in Users : getAlertsNeedingEscalation(u))
        => (res'.count = 1 <=> DueByOwnWindow) ]_vars


(***************************************************************************)
(* Connections while the membership of the circle changes: clients         *)
(* connect and send join:circle and leave:circle, while users              *)
(* join the circle by code, leave it, are removed, or the circle is        *)
(* deleted.                                                                *)
(***************************************************************************)
\* the tokens the clients hold: those of the member u2 and of u3, who is not
\* in the circle at first
UserCredentials == {[kind |-> "valid", id |-> u] : u \in {"u2", "u3"}}

NextRooms ==
  \/ \E s \in Sockets, cred \in UserCredentials : connect(s, cred)
  \/ \E s \in Sockets : on_join_circle(s, "c1")
  \/ \E s \in Sockets : on_leave_circle(s, "c1")
  \/ \E u \in {"u2", "u3"}, code \in InviteCodes : joinCircleByCode(u, code)
  \/ \E u \in {"u2", "u3"} : leaveCircle(u)
  \/ \E u \in {"u1", "u2"}, w \in {"u2", "u3"} : removeMember(u, w)
  \/ \E u \in {"u1", "u2"} : deleteCircle(u)

SpecRooms == InitAlert /\ [][NextRooms]_vars

\* the groups of the membership list of u: its private group and the group
\* of the circle when the list holds the circle
GroupsOf(u) ==
  {UserRoom(u)} \cup (IF u \in userCircles THEN {CircleRoom("c1")} ELSE {})

\* C30: after a successful handshake a connection is subscribed to exactly
\* the private group of its user and one group per circle of the user's
\* membership list as read at connect time; afterwards its subscriptions
\* change only when its client sends join:circle or leave:circle, whatever
\* happens to the membership of the circle.
C30_RoomsFollowSignalsOnly ==
  [][ \A s \in Sockets :
        /\ (io.sockets[s].state # "open" /\ io'.sockets[s].state = "open")
             => io'.sockets[s].rooms = GroupsOf(io'.sockets[s].userId)
        /\ (/\ io.sockets[s].state = "open"
            /\ io'.sockets[s].state = "open"
            /\ io'.sockets[s].rooms # io.sockets[s].rooms)
             => on_join_circle(s, "c1") \/ on_leave_circle(s, "c1") ]_vars

\* a connection of a member that stays in the group of the circle after the
\* user has left the membership list, beside a connection of a user who
\* joined the circle after connecting and is not in the group
C30_StaleSubscriptions ==
  \E s, t \in Sockets :
    /\ io.sockets[s].state = "open"
    /\ io.sockets[s].userId \notin userCircles
    /\ io.sockets[s].rooms = {UserRoom(io.sockets[s].userId), CircleRoom("c1")}
    /\ io.sockets[t].state = "open"
    /\ io.sockets[t].userId = "u3"
    /\ "u3" \in userCircles
    /\ io.sockets[t].rooms = {UserRoom("u3")}


(***************************************************************************)
(* Several events in a row: the clients of the members connect, enter and  *)
(* leave rooms, and send alert and location signals.                       *)
(***************************************************************************)
\* one event more than elsewhere, so that two events of a socket can meet
SeveralEventsLeft == Len(io.published) <= MaxEvents

NextOrder ==
  \/ \E s \in Sockets, cred \in MemberCredentials : connect(s, cred)
  \/ \E s \in Sockets : on_join_circle(s, "c2")
  \/ \E s \in Sockets : on_leave_circle(s, "c1")
  \/ \E s \in Sockets : SeveralEventsLeft /\ on_alert_trigger(s, "c1")
  \/ \E s \in Sockets : SeveralEventsLeft /\ on_alert_acknowledge(s, "c1")
  \/ \E s \in Sockets, c \in CircleIds : SeveralEventsLeft /\ on_location_update(s, c)

SpecOrder == InitAlert /\ [][NextOrder]_vars

\* the events socket t holds at positions i and j come from one publishing
\* socket and went to one room
SamePublisherAndRoom(t, i, j) ==
  LET a == io.published[io.sockets[t].inbox[i]]
      b == io.published[io.sockets[t].inbox[j]]
  IN a.from = b.from /\ a.room = b.room

Announced(u) ==
  \A c \in CirclesOf(u) :
    \E k \in (Len(io.published) + 1) .. Len(io'.published) :
      /\ io'.published[k].name = "user:status-changed"
      /\ io'.published[k].room = CircleRoom(c)
      /\ io'.published[k].by = u

\* C32: every connect of a user publishes the presence event (online) and
\* every disconnect publishes it (offline), with the user's id, to the rooms
\* of the user's circles.
C32_PresencePublished ==
  [][ \A s \in Sockets :
        /\ (io.sockets[s].state # "open" /\ io'.sockets[s].state = "open")
             => Announced(io'.sockets[s].userId)
        /\ on_disconnect(s) => Announced(io.sockets[s].userId) ]_vars


(***************************************************************************)
(* The membership methods of a circle, called one after the other on the   *)
(* stored document: each call runs the method and its save                 *)
(***************************************************************************)
MethodCall(m) ==
  /\ IF m.err # ""
     THEN /\ res' = ErrorResponse(m.err, 400)
          /\ UNCHANGED circle
     ELSE LET sv == circle_save(circle, circle, m.doc)
          IN IF sv.err # ""
             THEN /\ res' = ErrorResponse(sv.err, 400)
                  /\ UNCHANGED circle
             ELSE /\ circle' = sv.doc
                  /\ res' = Ok(200, "saved")
  /\ UNCHANGED <<now, userCircles, alert, checkIn, reqs, io, users, second, tokenLog, inserted, client>>

addMember(u, role) == MethodCall(circle_addMember(circle, u, role))

removeMember_method(u) == MethodCall(circle_removeMember(circle, u))

NextMembers ==
  \/ \E u \in Users, role \in Roles : addMember(u, role)
  \/ \E u \in Users : removeMember_method(u)
  \/ Tick

SpecMembers == InitAlert /\ [][NextMembers]_vars

EntriesOf(members, u) == {i \in Indices(members) : members[i].user = u}

\* C33: addMember for a user who is an active member succeeds and leaves the
\* members list as it is (role and joinedAt included); for a user whose entry
\* is inactive it reactivates that entry; and after any sequence of calls the
\* list holds at most one entry per user.
C33_AddMemberIdempotent ==
  [][ \A u \in Users, role \in Roles :
        addMember(u, role) =>
          /\ circle_isMember(circle, u)
               => res' = Ok(200, "saved") /\ circle'.members = circle.members
          /\ (EntriesOf(circle.members, u) # {} /\ ~circle_isMember(circle, u))
               => /\ res' = Ok(200, "saved")
                  /\ Len(circle'.members) = Len(circle.members)
                  /\ \A i \in Indices(circle.members) :
                       IF circle.members[i].user = u
                       THEN /\ circle'.members[i].isActive
                            /\ circle'.members[i].role = circle.members[i].role
                       ELSE circle'.members[i] = circle.members[i]
          /\ \A w \in Users : Cardinality(EntriesOf(circle'.members, w)) <= 1 ]_vars

\* u2, a member from the start, has been removed and added again, and u3
\* has been added
C33_Reactivated ==
  /\ Len(circle.members) = 3
  /\ \E i \in Indices(circle.members) :
       /\ circle.members[i].user = "u2"
       /\ circle.members[i].isActive
       /\ circle.members[i].joinedAt > 0


(***************************************************************************)
(* Properties of the members list (SpecJoin)                               *)
(***************************************************************************)
\* the entry of user u is still in the list, inactive, and the count of
\* active members went down by one if u was active
SoftDeleted(u) ==
  /\ \E i \in Indices(circle'.members) :
       circle'.members[i].user = u /\ ~circle'.members[i].isActive
  /\ memberCount(circle') =
       memberCount(circle) - (IF circle_isMember(circle, u) THEN 1 ELSE 0)

\* C34: removal is a soft delete.  No command removes an entry of the members
\* list: the list never shrinks and keeps its users in place; after a leave or
\* a removal the entry of the user is inactive and memberCount counts the
\* active entries; deleting the circle leaves the list as it is.
C34_RemovalIsSoftDelete ==
  [][ /\ Len(circle'.members) >= Len(circle.members)
      /\ \A i \in Indices(circle.members) :
           circle'.members[i].user = circle.members[i].user
      /\ \A u \in Users : (leaveCircle(u) /\ res'.code = 200) => SoftDeleted(u)
      /\ \A u, w \in Users : (removeMember(u, w) /\ res'.code = 200) => SoftDeleted(w)
      /\ \A u \in Users :
           (deleteCircle(u) /\ res'.code = 200) => circle'.members = circle.members ]_vars

\* u1 created the circle, u2 joined by code and left: one active member, u1
\* the only active admin, and the entry of u2 still there
C34_CreateJoinLeave ==
  /\ res = Ok(200, "Successfully left circle")
  /\ Len(circle.members) = 2
  /\ circle.members[2].user = "u2"
  /\ ~circle.members[2].isActive
  /\ memberCount(circle) = 1
  /\ SoleAdmin(circle, "u1")


\* C35: after every completed circle command, the circle is in the circles
\* list of a user exactly when the circle is active and the user is an active
\* member of it.
C35_CirclesListMatchesMembers ==
  \A u \in Users :
    u \in userCircles <=> (circle.exists /\ circle.isActive /\ circle_isMember(circle, u))


\* a join, leave, removal or deletion request
MembershipCommand ==
  \/ \E u \in Users, code \in InviteCodes : joinCircleByCode(u, code)
  \/ \E u \in Users : leaveCircle(u)
  \/ \E u, w \in Users : removeMember(u, w)
  \/ \E u \in Users : deleteCircle(u)

\* C36: once a circle has been soft-deleted, no command against it succeeds:
\* the request is refused and neither the circle nor the circles lists change.
C36_DeletedCircleRefusesCommands ==
  [][ (circle.exists /\ ~circle.isActive /\ MembershipCommand)
        => /\ res'.error # ""
           /\ circle' = circle
           /\ userCircles' = userCircles ]_vars


(***************************************************************************)
(* Roles (SpecCircle)                                                      *)
(***************************************************************************)
\* every active entry of user u has the role member
PlainMember(c, u) ==
  /\ circle_isMember(c, u)
  /\ \A i \in Indices(c.members) :
       (c.members[i].user = u /\ c.members[i].isActive) => c.members[i].role = "member"

\* C37: a user who enters a circle by invite code or by email invite ends up
\* with the role member, also a former admin who left and enters again.
C37_EnteringGivesMemberRole ==
  [][ /\ \A u \in Users, code \in InviteCodes :
           (joinCircleByCode(u, code) /\ res'.code = 200) => PlainMember(circle', u)
      /\ \A u, w \in Users :
           (inviteToCircle(u, w) /\ res'.code = 200) => PlainMember(circle', w) ]_vars


(***************************************************************************)
(* The fields of an alert taken together                                   *)
(***************************************************************************)
AlertConsistent(d) ==
  d.status # "none" =>
    /\ (d.resolvedAt # NoTime /\ d.resolvedBy # NoUser) <=> d.status \in TerminalStatuses
    /\ (d.resolvedAt = NoTime /\ d.resolvedBy = NoUser) <=> d.status \notin TerminalStatuses
    /\ d.status = "acknowledged" => d.acknowledgedBy # <<>>
    /\ d.activityLog # <<>>
    /\ d.activityLog[1].action = "created"
    /\ d.autoEscalate.escalated <=> HasEntry(d, "escalated")
    /\ d.autoEscalate.escalated => d.priority = 5

\* C38: in every reachable state of an alert, resolvedAt and resolvedBy are
\* set exactly when the status is resolved, cancelled or false-alarm; an
\* acknowledged alert has an acknowledgment; the log starts with the created
\* entry and only grows; escalated is true exactly when the log holds an
\* escalated entry, and then the priority is 5.
C38_AlertFieldsConsistent ==
  [][ /\ AlertConsistent(alert')
      /\ Len(alert'.activityLog) >= Len(alert.activityLog)
      /\ SubSeq(alert'.activityLog, 1, Len(alert.activityLog)) = alert.activityLog ]_vars

(***************************************************************************)
(* Create requests that interleave.  createAlert and createCheckIn await   *)
(* Circle.findById, then the insert of the new document, then the save()   *)
(* that incrementAlerts / incrementCheckIns calls on the circle loaded at  *)
(* the start: begin is the load and the checks, create the insert and the  *)
(* increment on the loaded circle, save the write reaching the store.      *)
(***************************************************************************)
\* Most documents the interleaving create requests insert.
MaxCreated == 2

CreateOps == {"createAlert", "createCheckIn"}

CreatesInFlight == Cardinality({u \in Users : reqs[u].op \in CreateOps})

CreatesLeft == inserted.alerts + inserted.checkIns + CreatesInFlight < MaxCreated

createAlert_begin(u) ==
  /\ reqs[u] = NoReq
  /\ InFlight < MaxInFlight
  /\ IF ~circle.exists
     THEN /\ res' = ErrorResponse("Circle not found", 404)
          /\ UNCHANGED reqs
     ELSE IF ~circle_isMember(circle, u)
     THEN /\ res' = ErrorResponse("You must be a member of the circle to create an alert",
                                  403)
          /\ UNCHANGED reqs
     ELSE /\ reqs' = [reqs EXCEPT ![u] =
                        [op |-> "createAlert", stage |-> "create", loaded |-> circle]]
          /\ UNCHANGED res
  /\ UNCHANGED <<now, circle, userCircles, alert, checkIn, io, users, second, tokenLog, inserted, client>>

createAlert_create(u) ==
  /\ reqs[u].op = "createAlert"
  /\ reqs[u].stage = "create"
  /\ inserted' = [inserted EXCEPT !.alerts = @ + 1]
  /\ alert' = IF alert.status = "none" THEN NewAlert(u, now) ELSE alert
  /\ reqs' = [reqs EXCEPT ![u] =
                [op |-> "createAlert", stage |-> "save",
                 update |-> circle_delta(reqs[u].loaded,
                                         circle_incrementAlerts(reqs[u].loaded).doc)]]
  /\ UNCHANGED <<now, circle, userCircles, checkIn, res, io, users, second, tokenLog, client>>

createCheckIn_begin(u, expectedReturnTime) ==
  /\ reqs[u] = NoReq
  /\ InFlight < MaxInFlight
  /\ IF ~circle.exists
     THEN /\ res' = ErrorResponse("Circle not found", 404)
          /\ UNCHANGED reqs
     ELSE IF ~circle_isMember(circle, u)
     THEN /\ res' = ErrorResponse("You must be a member of the circle to create a check-in",
                                  403)
          /\ UNCHANGED reqs
     ELSE /\ reqs' = [reqs EXCEPT ![u] =
                        [op |-> "createCheckIn", stage |-> "create", loaded |-> circle,
                         expectedReturnTime |-> expectedReturnTime]]
          /\ UNCHANGED res
  /\ UNCHANGED <<now, circle, userCircles, alert, checkIn, io, users, second, tokenLog, inserted, client>>

createCheckIn_create(u) ==
  /\ reqs[u].op = "createCheckIn"
  /\ reqs[u].stage = "create"
  /\ IF ~checkIn_validate(NewCheckIn(u, reqs[u].expectedReturnTime))
     THEN /\ res' = ErrorResponse("Expected return time must be in the future", 500)
          /\ reqs' = [reqs EXCEPT ![u] = NoReq]
          /\ UNCHANGED <<checkIn, inserted>>
     ELSE /\ inserted' = [inserted EXCEPT !.checkIns = @ + 1]
          /\ checkIn' = IF checkIn.status = "none"
                        THEN NewCheckIn(u, reqs[u].expectedReturnTime)
                        ELSE checkIn
          /\ reqs' = [reqs EXCEPT ![u] =
                        [op |-> "createCheckIn", stage |-> "save",
                         update |-> circle_delta(reqs[u].loaded,
                                                 circle_incrementCheckIns(reqs[u].loaded).doc)]]
          /\ UNCHANGED res
  /\ UNCHANGED <<now, circle, userCircles, alert, io, users, second, tokenLog, client>>

create_save(u) ==
  /\ reqs[u].op \in CreateOps
  /\ reqs[u].stage = "save"
  /\ LET sv == circle_apply(circle, reqs[u].update)
     IN IF sv.err # ""
        THEN /\ res' = ErrorResponse(sv.err, 500)
             /\ UNCHANGED circle
        ELSE /\ circle' = sv.doc
             /\ res' = Ok(201, IF reqs[u].op = "createAlert"
                               THEN "Alert created successfully"
                               ELSE "Check-in created successfully")
  /\ reqs' = [reqs EXCEPT ![u] = NoReq]
  /\ UNCHANGED <<now, userCircles, alert, checkIn, io, users, second, tokenLog, inserted, client>>

NextCount ==
  \/ \E u \in Users : CreatesLeft /\ createAlert_begin(u)
  \/ \E u \in Users : createAlert_create(u)
  \/ \E u \in Users : CreatesLeft /\ createCheckIn_begin(u, ReturnAfter)
  \/ \E u \in Users : createCheckIn_create(u)
  \/ \E u \in Users : create_save(u)
  \/ \E u \in Users : joinCircleByCode_begin(u, "C0DE")
  \/ \E u \in Users : leaveCircle_begin(u)
  \/ \E u \in Users : circle_request_save(u)
  \/ \E u \in Users : circle_request_user(u)

SpecCount == InitAlert /\ [][NextCount]_vars

\* C39: once no create request is in flight, the circle's stats.totalAlerts is
\* the number of alerts created on it and stats.totalCheckIns the number of
\* check-ins created on it, whatever requests ran and however they interleaved.
C39_CountersMatchCreations ==
  CreatesInFlight = 0 =>
    /\ circle.stats.totalAlerts = inserted.alerts
    /\ circle.stats.totalCheckIns = inserted.checkIns

(***************************************************************************)
(* The client API layer: the axios instance api of the browser of u1, its  *)
(* request interceptor and its response interceptor.  One request is       *)
(* followed from its dispatch to the settling of its promise; the refresh  *)
(* call goes through the bare axios, past the interceptors.                *)
(***************************************************************************)
\* Most times one request is dispatched.
MaxSends == 3

\* the statuses a handler behind protect answers with
HandlerStatuses == {200, 401, 403, 404, 500}

\* the statuses the server can answer the request r with
Statuses(r) ==
  IF protect("u1", r.Authorization) # 0
  THEN {protect("u1", r.Authorization)}
  ELSE HandlerStatuses

Settle(stage, code) ==
  [client EXCEPT !.originalRequest.stage = stage, !.originalRequest.code = code]

\* removeItem of accessToken, refreshToken and user, and the rejection
ClearAndReject(code) ==
  [ localStorage |-> NoStorage,
    originalRequest |-> [client.originalRequest EXCEPT
                           !.retry = TRUE, !.stage = "rejected", !.code = code] ]

\* a call of api: the request interceptor attaches the stored access token
api_request ==
  /\ client.originalRequest.stage \in {"idle", "resolved", "rejected"}
  /\ client' = [client EXCEPT !.originalRequest =
                  [stage |-> "sent", retry |-> FALSE,
                   Authorization |-> client.localStorage.accessToken, code |-> "",
                   sends |-> 1, refreshes |-> 0]]
  /\ UNCHANGED <<now, circle, userCircles, alert, checkIn, res, reqs, io, users, second, tokenLog, inserted>>

\* the response interceptor that never sets _retry
api_response_noFlag(status) ==
  /\ client.originalRequest.stage = "sent"
  /\ status \in Statuses(client.originalRequest)
  /\ client' =
       IF status = 200 THEN Settle("resolved", "")
       ELSE IF status = 401 /\ ~client.originalRequest.retry
       THEN IF client.localStorage.refreshToken = NoToken
            THEN ClearAndReject("401")
            ELSE [client EXCEPT !.originalRequest.stage = "refreshing",
                                !.originalRequest.refreshes = @ + 1]
       ELSE IF status = 403 THEN Settle("rejected", "FORBIDDEN")
       ELSE IF status = 404 THEN Settle("rejected", "NOT_FOUND")
       ELSE IF status >= 500 THEN Settle("rejected", "SERVER_ERROR")
       ELSE Settle("rejected", "ERROR")
  /\ UNCHANGED <<now, circle, userCircles, alert, checkIn, res, reqs, io, users, second, tokenLog, inserted>>

\* the response interceptor on an answer with the status
api_response(status) ==
  /\ client.originalRequest.stage = "sent"
  /\ status \in Statuses(client.originalRequest)
  /\ client' =
       IF status = 200 THEN Settle("resolved", "")
       ELSE IF status = 401 /\ ~client.originalRequest.retry
       THEN IF client.localStorage.refreshToken = NoToken
            THEN ClearAndReject("401")
            ELSE [client EXCEPT !.originalRequest.retry = TRUE,
                                !.originalRequest.stage = "refreshing",
                                !.originalRequest.refreshes = @ + 1]
       ELSE IF status = 403 THEN Settle("rejected", "FORBIDDEN")
       ELSE IF status = 404 THEN Settle("rejected", "NOT_FOUND")
       ELSE IF status >= 500 THEN Settle("rejected", "SERVER_ERROR")
       ELSE Settle("rejected", "ERROR")
  /\ UNCHANGED <<now, circle, userCircles, alert, checkIn, res, reqs, io, users, second, tokenLog, inserted>>

\* the response interceptor on an error without a response
api_network_error ==
  /\ client.originalRequest.stage = "sent"
  /\ client' = Settle("rejected", "NETWORK_ERROR")
  /\ UNCHANGED <<now, circle, userCircles, alert, checkIn, res, reqs, io, users, second, tokenLog, inserted>>

\* the answer of POST /api/auth/refresh reaches the interceptor: the tokens
\* are stored and the request is sent again, or the catch clears the storage
refresh_response ==
  /\ client.originalRequest.stage = "refreshing"
  /\ client.originalRequest.sends < MaxSends
  /\ LET out == refreshTokenOn(client.localStorage.refreshToken)
     IN /\ res' = out.res
        /\ users' = out.users
        /\ tokenLog' = out.tokenLog
        /\ client' =
             IF out.res.code = 200
             THEN [ localStorage |->
                      [client.localStorage EXCEPT
                         !.accessToken = "valid", !.refreshToken = out.res.refreshToken],
                    originalRequest |->
                      [client.originalRequest EXCEPT
                         !.stage = "sent", !.Authorization = "valid", !.sends = @ + 1] ]
             ELSE ClearAndReject("REFRESH")
  /\ UNCHANGED <<now, circle, userCircles, alert, checkIn, reqs, io, second, inserted>>

\* the refresh call throws without an answer
refresh_failure ==
  /\ client.originalRequest.stage = "refreshing"
  /\ client' = ClearAndReject("REFRESH")
  /\ UNCHANGED <<now, circle, userCircles, alert, checkIn, res, reqs, io, users, second, tokenLog, inserted>>

\* the access token passes its expiry
accessToken_expires ==
  /\ client.localStorage.accessToken = "valid" \/ client.originalRequest.Authorization = "valid"
  /\ client' = [client EXCEPT
                  !.localStorage.accessToken = IF @ = "valid" THEN "expired" ELSE @,
                  !.originalRequest.Authorization = IF @ = "valid" THEN "expired" ELSE @]
  /\ UNCHANGED <<now, circle, userCircles, alert, checkIn, res, reqs, io, users, second, tokenLog, inserted>>

\* u1 is logged in: the tokens of register and the user are stored
InitClient ==
  /\ now = 0
  /\ circle = NoCircle
  /\ userCircles = {}
  /\ alert = NoAlert
  /\ checkIn = NoCheckIn
  /\ res = NoResponse
  /\ reqs = NoRequests
  /\ io = NoIo
  /\ users = RegisteredUsers
  /\ second = 0
  /\ tokenLog = NoTokenLog
  /\ inserted = NoInserted
  /\ client = [ localStorage |-> [accessToken |-> "valid",
                                  refreshToken |-> RegisteredUsers["u1"].refreshToken,
                                  user |-> "u1"],
                originalRequest |-> NoApiRequest ]

NextClient ==
  \/ api_request
  \/ \E status \in HandlerStatuses : api_response(status)
  \/ api_network_error
  \/ refresh_response
  \/ refresh_failure
  \/ accessToken_expires
  \/ logout("u1", "valid")
  \/ Second

\* every call that was sent is answered or fails
SpecClient ==
  /\ InitClient
  /\ [][NextClient]_vars
  /\ WF_vars(\E status \in HandlerStatuses : api_response(status))
  /\ WF_vars(refresh_response)

Pending == client.originalRequest.stage \in {"sent", "refreshing"}

Settled == client.originalRequest.stage \in {"resolved", "rejected"}

\* the step handles a 401 while no refresh token is stored
NoTokenToRefresh ==
  /\ client.originalRequest.stage = "sent"
  /\ ~client.originalRequest.retry
  /\ client'.originalRequest.retry
  /\ client.localStorage.refreshToken = NoToken

\* the step ends a refresh call that did not bring new tokens
RefreshFailed ==
  /\ client.originalRequest.stage = "refreshing"
  /\ client'.originalRequest.stage # "refreshing"
  /\ \/ refreshTokenOn(client.localStorage.refreshToken).res.code # 200
     \/ client'.originalRequest.stage # "sent"

====
